---------------------------- MODULE Spec2Model ----------------------------
(***************************************************************************)
(* A model of the index-and-retrieval core of the personal-blog search     *)
(* engine: text processing (utils/text_processing.py), the BM25 engines    *)
(* (search_engine/indexer/indexer.py, optimized_indexer.py), the index     *)
(* optimiser (optimize_index.py), the vector index (bert_embeddings.py)    *)
(* and the lazy index load of the web application (app.py).                *)
(*                                                                         *)
(* Text is a sequence of one-character strings.  Floating-point scores are *)
(* fixed-point integers in units of 1/SCALE; np.log is a table.            *)
(***************************************************************************)
EXTENDS Integers, Sequences, FiniteSets, TLC

VARIABLES
    document_map,        \* indexer.document_map: doc_id -> metadata record
    inverted_index,      \* indexer.inverted_index: term -> sequence of <<doc_id, tf>>
    document_lengths,    \* indexer.document_lengths: doc_id -> length
    average_doc_length,  \* indexer.average_doc_length, in units of 1/SCALE
    use_hybrid_search,   \* indexer.use_hybrid_search
    bert_embeddings,     \* indexer.bert_embeddings: None or a BertEmbeddings record
    phase,               \* position of the single-threaded driver of a specification
    call,                \* the arguments and environment of the call in progress / last made
    results,             \* the list the last search returned
    trace,               \* what the last call did (reads of the index, path taken, raw scores)
    index_loaded,        \* app.index_loaded
    pc,                  \* request handler -> position inside load_index / the route
    loads,               \* history: load_optimized_index executions started / finished
    snapshot,            \* history: the index as it was after an earlier step
    load_args,           \* history: the arguments and environment of the load that was made
    NLTK_AVAILABLE,      \* text_processing.NLTK_AVAILABLE, fixed when the module is imported
    config,              \* crawler.config
    visited_urls,        \* crawler.visited_urls
    url_queue,           \* crawler.url_queue: sequence of [url, depth]
    robots_cache,        \* crawler.robots_cache: domain -> set of disallowed paths
    pages_crawled,       \* crawler.pages_crawled
    data_dir             \* the files of config["data_dir"]: saved pages, visited_urls.json

vars == <<document_map, inverted_index, document_lengths, average_doc_length,
          use_hybrid_search, bert_embeddings, phase, call, results, trace,
          index_loaded, pc, loads, snapshot, load_args, NLTK_AVAILABLE,
          config, visited_urls, url_queue, robots_cache, pages_crawled, data_dir>>

crawler_vars == <<config, visited_urls, url_queue, robots_cache, pages_crawled, data_dir>>

indexer_vars == <<document_map, inverted_index, document_lengths, average_doc_length,
                  use_hybrid_search, bert_embeddings>>

\* None, where an object is expected
None == [none |-> TRUE]

\* no crawler has been constructed
NoCrawler ==
    /\ config = None
    /\ visited_urls = {}
    /\ url_queue = <<>>
    /\ robots_cache = <<>>
    /\ pages_crawled = 0
    /\ data_dir = None

\* A JSON value that is not text, in a field that usually holds text: null (None,
\* which is falsy) and a number other than 0 (truthy, without lower()).  No text
\* equals them: a text is a sequence of one-character strings.
JsonNull   == <<"null">>
JsonNumber == <<"number">>

(***************************************************************************)
(* Generic sequence helpers (Python list / str primitives).                *)
(***************************************************************************)
Max2(a, b) == IF a >= b THEN a ELSE b
Min2(a, b) == IF a <= b THEN a ELSE b

\* s[a:b] of Python for 0 <= a, with b clipped to len(s); 0-based, end-exclusive.
Slice(s, a, b) == SubSeq(s, a + 1, Min2(b, Len(s)))

\* s[:n]
Prefix(s, n) == Slice(s, 0, n)

\* x in list
InSeq(x, s) == \E i \in 1..Len(s) : s[i] = x

\* needle in haystack, for str: contiguous occurrence (the empty string is in every string)
Contains(hay, needle) ==
    \E i \in 0..(Len(hay) - Len(needle)) : SubSeq(hay, i + 1, i + Len(needle)) = needle

RECURSIVE Concat(_)
\* "".join / list.extend over a list of lists
Concat(ss) == IF ss = <<>> THEN <<>> ELSE Head(ss) \o Concat(Tail(ss))

(***************************************************************************)
(* Characters.                                                             *)
(***************************************************************************)
LowerAlphabet == <<"a","b","c","d","e","f","g","h","i","j","k","l","m",
                   "n","o","p","q","r","s","t","u","v","w","x","y","z">>
UpperAlphabet == <<"A","B","C","D","E","F","G","H","I","J","K","L","M",
                   "N","O","P","Q","R","S","T","U","V","W","X","Y","Z">>
LowerLetters == {LowerAlphabet[i] : i \in 1..Len(LowerAlphabet)}
UpperLetters == {UpperAlphabet[i] : i \in 1..Len(UpperAlphabet)}
Digits       == {"0","1","2","3","4","5","6","7","8","9"}
SP == " "
NL == "\n"
Whitespace   == {SP, NL}

\* \w of the re module
IsWordChar(c) == c \in LowerLetters \cup UpperLetters \cup Digits \cup {"_"}
\* \s of the re module
IsSpace(c) == c \in Whitespace

\* str.lower() on one character
LowerChar(c) ==
    IF c \in UpperLetters
    THEN LowerAlphabet[CHOOSE i \in 1..Len(UpperAlphabet) : UpperAlphabet[i] = c]
    ELSE c

\* str.lower()
Lower(s) == [i \in 1..Len(s) |-> LowerChar(s[i])]

RECURSIVE LStrip(_)
LStrip(s) == IF s # <<>> /\ IsSpace(Head(s)) THEN LStrip(Tail(s)) ELSE s

RECURSIVE RStrip(_)
RStrip(s) == IF s # <<>> /\ IsSpace(s[Len(s)]) THEN RStrip(SubSeq(s, 1, Len(s) - 1)) ELSE s

\* str.strip()
Strip(s) == RStrip(LStrip(s))

RECURSIVE SplitFrom(_, _)
\* str.split(): the maximal runs of non-whitespace characters, in order.
\* cur is the run being read.
SplitFrom(s, cur) ==
    IF s = <<>> THEN (IF cur = <<>> THEN <<>> ELSE <<cur>>)
    ELSE IF IsSpace(Head(s))
         THEN (IF cur = <<>> THEN <<>> ELSE <<cur>>) \o SplitFrom(Tail(s), <<>>)
         ELSE SplitFrom(Tail(s), Append(cur, Head(s)))

Split(s) == SplitFrom(s, <<>>)

RECURSIVE JoinSpace(_)
\* " ".join(words)
JoinSpace(ws) ==
    IF ws = <<>> THEN <<>>
    ELSE IF Len(ws) = 1 THEN ws[1]
    ELSE ws[1] \o <<SP>> \o JoinSpace(Tail(ws))

(***************************************************************************)
(* utils/text_processing.py                                                *)
(***************************************************************************)
\* Words of the vocabulary, as text.
w_python == <<"p","y","t","h","o","n">>
w_blog   == <<"b","l","o","g">>
w_blogs  == <<"b","l","o","g","s">>
w_code   == <<"c","o","d","e">>
w_about  == <<"a","b","o","u","t">>
w_web    == <<"w","e","b">>
w_ai     == <<"a","i">>
w_the    == <<"t","h","e">>
w_of     == <<"o","f">>
w_a      == <<"a">>

\* nltk.stem.PorterStemmer().stem on the vocabulary: the plural loses its s,
\* every other word of the vocabulary is its own stem.
stem(token) == IF token = w_blogs THEN w_blog ELSE token

RECURSIVE WordRun(_)
\* number of leading \w characters
WordRun(s) == IF s # <<>> /\ IsWordChar(Head(s)) THEN 1 + WordRun(Tail(s)) ELSE 0

RECURSIVE NonSpaceRun(_)
\* number of leading \S characters
NonSpaceRun(s) == IF s # <<>> /\ ~IsSpace(Head(s)) THEN 1 + NonSpaceRun(Tail(s)) ELSE 0

StartsWith(s, p) == Len(s) >= Len(p) /\ SubSeq(s, 1, Len(p)) = p

Drop(s, n) == SubSeq(s, n + 1, Len(s))

RECURSIVE SubEntities(_)
\* re.sub(r'&\w+;', ' ', text)
SubEntities(s) ==
    IF s = <<>> THEN <<>>
    ELSE LET n == WordRun(Tail(s))
         IN  IF Head(s) = "&" /\ n >= 1 /\ Len(s) >= n + 2 /\ s[n + 2] = ";"
             THEN <<SP>> \o SubEntities(Drop(s, n + 2))
             ELSE <<Head(s)>> \o SubEntities(Tail(s))

\* length of the match of r'https?://\S+' at the start of s, 0 when there is none
UrlMatch(s) ==
    LET https == <<"h","t","t","p","s",":","/","/">>
        http  == <<"h","t","t","p",":","/","/">>
        p     == IF StartsWith(s, https) THEN Len(https)
                 ELSE IF StartsWith(s, http) THEN Len(http) ELSE 0
        n     == NonSpaceRun(Drop(s, p))
    IN  IF p > 0 /\ n >= 1 THEN p + n ELSE 0

RECURSIVE SubUrls(_)
\* re.sub(r'https?://\S+', ' ', text)
SubUrls(s) ==
    IF s = <<>> THEN <<>>
    ELSE LET m == UrlMatch(s)
         IN  IF m > 0 THEN <<SP>> \o SubUrls(Drop(s, m))
             ELSE <<Head(s)>> \o SubUrls(Tail(s))

\* re.sub(r'[^\w\s-]', ' ', text)
SubPunct(s) ==
    [i \in 1..Len(s) |-> IF IsWordChar(s[i]) \/ IsSpace(s[i]) \/ s[i] = "-" THEN s[i] ELSE SP]

\* text.replace('-', ' ')
ReplaceHyphen(s) == [i \in 1..Len(s) |-> IF s[i] = "-" THEN SP ELSE s[i]]

\* tokenize(text); nltk is NLTK_AVAILABLE.  word_tokenize, applied to text that
\* holds only \w characters and whitespace, splits at whitespace.
tokenize(text, nltk) ==
    IF text = <<>> THEN <<>>
    ELSE LET cleaned == ReplaceHyphen(SubPunct(SubUrls(SubEntities(Lower(text)))))
             words   == Split(cleaned)
             tokens  == IF nltk THEN [i \in 1..Len(words) |-> stem(words[i])] ELSE words
             long(t) == Len(t) > 1
         IN  SelectSeq(tokens, long)

RECURSIVE AppendStems(_, _)
\* for token in tokens: stemmed = stem(token); append when new
AppendStems(tokens, expanded) ==
    IF tokens = <<>> THEN expanded
    ELSE LET stemmed == stem(Head(tokens))
         IN  AppendStems(Tail(tokens),
                 IF stemmed # Head(tokens) /\ ~InSeq(stemmed, expanded)
                 THEN Append(expanded, stemmed) ELSE expanded)

RECURSIVE AppendPhrases(_, _)
\* for phrase in query_phrases: append when new and longer than one character
AppendPhrases(phrases, expanded) ==
    IF phrases = <<>> THEN expanded
    ELSE AppendPhrases(Tail(phrases),
             IF ~InSeq(Head(phrases), expanded) /\ Len(Head(phrases)) > 1
             THEN Append(expanded, Head(phrases)) ELSE expanded)

\* expand_query's list expanded_query, before it is joined
expand_terms(query, nltk) ==
    LET q             == Strip(Lower(query))
        query_phrases == Split(q)
        tokens        == Concat([i \in 1..Len(query_phrases) |-> tokenize(query_phrases[i], nltk)])
        with_stems    == IF nltk THEN AppendStems(tokens, tokens) ELSE tokens
    IN  AppendPhrases(query_phrases, with_stems)

\* expand_query(query)
expand_query(query, nltk) == JoinSpace(expand_terms(query, nltk))

\* additional_ignore_words of identify_main_terms, restricted to the vocabulary
additional_ignore_words == {w_about, w_of}

\* the terms of at least 5 characters, else those of at least 4, else all
LongTerms(non_stop) ==
    LET len5(t) == Len(t) >= 5
        len4(t) == Len(t) >= 4
    IN  IF SelectSeq(non_stop, len5) # <<>> THEN SelectSeq(non_stop, len5)
        ELSE IF SelectSeq(non_stop, len4) # <<>> THEN SelectSeq(non_stop, len4)
        ELSE non_stop

\* if term not in main_terms: main_terms.append(term)
AppendNew(main_terms, term) ==
    IF ~InSeq(term, main_terms) THEN Append(main_terms, term) ELSE main_terms

\* the main terms of the tokens that are not ignored
MainTermsOf(tokens, non_stop) ==
    IF non_stop = <<>> THEN tokens
    ELSE AppendNew(AppendNew(LongTerms(non_stop), non_stop[1]), non_stop[Len(non_stop)])

\* the tokens outside stopwords and additional_ignore_words
NonStop(tokens, stopwords) ==
    LET kept(t) == t \notin stopwords \cup additional_ignore_words
    IN  SelectSeq(tokens, kept)

\* the body of identify_main_terms on the tokens of the query
MainTermsOfTokens(tokens, stopwords) == MainTermsOf(tokens, NonStop(tokens, stopwords))

\* identify_main_terms(query, stopwords)
identify_main_terms(query, stopwords, nltk) ==
    IF query = <<>> THEN <<>>
    ELSE MainTermsOfTokens(tokenize(Strip(Lower(query)), nltk), stopwords)

(***************************************************************************)
(* Fixed-point arithmetic for the float scores.                            *)
(***************************************************************************)
\* One unit of a score, a similarity or average_doc_length is 1/SCALE.
SCALE == 10 * 100

\* floor(a * b / c) for a, b >= 0 and c > 0, without forming a * b
MulDiv(a, b, c) == (a \div c) * b + ((a % c) * b) \div c

\* np.log(k) in units of 1/SCALE, for the odd k that 2N - 2n + 1 and 2n + 1 take
LogTable == <<0, 0, 1099, 0, 1609, 0, 1946, 0, 2197, 0, 2398, 0, 2565, 0, 2708>>

\* max(0.0, np.log((N - n + 0.5) / (n + 0.5))); the logarithm of a ratio that is
\* not positive is nan, and max(0.0, nan) is 0.0
Idf(N, n) ==
    IF 2 * N - 2 * n + 1 <= 0 THEN 0
    ELSE Max2(0, LogTable[2 * N - 2 * n + 1] - LogTable[2 * n + 1])

\* ((k1 + 1) * tf) / (k1 * (1 - b + b * doc_len / average_doc_length) + tf) with
\* k1 = 1.2 and b = 0.75, i.e. 22 tf avg / (3 avg + 9 doc_len + 10 tf avg);
\* avg is in units of 1/SCALE and is not 0.
TfComponent(tf, doc_len, avg) ==
    MulDiv(22 * tf * avg, SCALE, 3 * avg + 9 * doc_len * SCALE + 10 * tf * avg)

(***************************************************************************)
(* Python dicts that are iterated: a sequence of <<key, value>> in         *)
(* insertion order.                                                        *)
(***************************************************************************)
DictKeys(d) == {d[i][1] : i \in 1..Len(d)}

DictGet(d, k, default) ==
    IF k \in DictKeys(d) THEN d[CHOOSE i \in 1..Len(d) : d[i][1] = k][2] ELSE default

\* d[k] += v on a defaultdict(float)
DictAdd(d, k, v) ==
    IF k \in DictKeys(d)
    THEN [i \in 1..Len(d) |-> IF d[i][1] = k THEN <<k, d[i][2] + v>> ELSE d[i]]
    ELSE Append(d, <<k, v>>)

\* doc_info.get(field, "")
GetText(doc_info, field) == IF field \in DOMAIN doc_info THEN doc_info[field] ELSE <<>>

(***************************************************************************)
(* search_engine/indexer/optimized_indexer.py: scoring                     *)
(***************************************************************************)
Abs(x) == IF x < 0 THEN -x ELSE x

\* \b of the re module at 0-based position p of text
WordBoundary(text, p) ==
    (p > 0 /\ IsWordChar(text[p])) # (p < Len(text) /\ IsWordChar(text[p + 1]))

\* {m.start() for m in re.finditer(r'\b' + re.escape(term) + r'\b', text)}
TermPositions(text, term) ==
    {p \in 0..(Len(text) - Len(term)) :
        /\ SubSeq(text, p + 1, p + Len(term)) = term
        /\ WordBoundary(text, p)
        /\ WordBoundary(text, p + Len(term))}

SetMin(S) == CHOOSE x \in S : \A y \in S : x <= y
SetMax(S) == CHOOSE x \in S : \A y \in S : x >= y

\* abs(closest_pos - pos1) for closest_pos = min(term_positions, key=lambda x: abs(x - pos1))
ClosestDistance(positions, pos1) == SetMin({Abs(x - pos1) : x \in positions})

\* The inner loop of _calculate_term_proximity for one pos1: the greatest distance
\* to the closest occurrence of each other term, or -1 when the loop breaks
\* because some distance exceeds len(text) // 4.
WindowDistance(text, terms, pos1) ==
    LET dist(i) == ClosestDistance(TermPositions(text, terms[i]), pos1)
        others  == 2..Len(terms)
    IN  IF \E i \in others : dist(i) > Len(text) \div 4 THEN -1
        ELSE IF others = {} THEN 0
        ELSE SetMax({dist(i) : i \in others})

\* _calculate_term_proximity(text, terms), in units of 1/SCALE
\* (for a text of one character max_meaningful_distance is 0; no term of two
\* characters occurs in such a text, so the division is not reached)
_calculate_term_proximity(text, terms) ==
    IF terms = <<>> \/ text = <<>> THEN 0
    ELSE IF \E i \in 1..Len(terms) : TermPositions(text, terms[i]) = {} THEN 0
    ELSE LET windows == {WindowDistance(text, terms, pos1) :
                            pos1 \in TermPositions(text, terms[1])} \ {-1}
             max_meaningful_distance == Min2(100, Len(text) \div 2)
         IN  IF windows = {} THEN 0
             ELSE SCALE - (Min2(SetMin(windows), max_meaningful_distance) * SCALE)
                              \div max_meaningful_distance

\* term_importance of one query token, in hundredths
TermImportance(qt, original_query_tokens, main_query_terms) ==
    LET base == IF InSeq(qt, main_query_terms) THEN 250 ELSE 100
    IN  IF InSeq(qt, original_query_tokens) THEN (base * 18) \div 10 ELSE base

RECURSIVE ScorePostings(_, _, _, _, _, _)
\* for doc_id, tf in self.inverted_index[qt]: ... scores[doc_id] += idf * tf_component * term_importance
\* acc is [scores, presence]: scores the dict, presence the pairs <<doc_id, main term>>
ScorePostings(ix, postings, qt, weight, is_main, acc) ==
    IF postings = <<>> THEN acc
    ELSE LET doc_id == Head(postings)[1]
             tf     == Head(postings)[2]
             next   ==
                IF doc_id \in DOMAIN ix.document_lengths
                THEN [scores   |-> DictAdd(acc.scores, doc_id,
                                       (weight * TfComponent(tf, ix.document_lengths[doc_id],
                                                             ix.average_doc_length)) \div SCALE),
                      presence |-> IF is_main THEN acc.presence \cup {<<doc_id, qt>>}
                                   ELSE acc.presence]
                ELSE acc
         IN  ScorePostings(ix, Tail(postings), qt, weight, is_main, next)

RECURSIVE ScoreTerms(_, _, _, _, _)
\* for qt in query_tokens: if qt in self.inverted_index: ...
ScoreTerms(ix, query_tokens, original_query_tokens, main_query_terms, acc) ==
    IF query_tokens = <<>> THEN acc
    ELSE LET qt   == Head(query_tokens)
             next ==
                IF qt \in DOMAIN ix.inverted_index
                THEN LET N      == Cardinality(DOMAIN ix.document_map)
                         n      == Len(ix.inverted_index[qt])
                         weight == (Idf(N, n) * TermImportance(qt, original_query_tokens,
                                                               main_query_terms)) \div 100
                     IN  ScorePostings(ix, ix.inverted_index[qt], qt, weight,
                                       InSeq(qt, main_query_terms), acc)
                ELSE acc
         IN  ScoreTerms(ix, Tail(query_tokens), original_query_tokens, main_query_terms, next)

\* number of main terms recorded for doc_id: len(main_term_presence[doc_id])
PresenceCount(presence, doc_id) == Cardinality({pr \in presence : pr[1] = doc_id})

\* the number of terms of the list that occur in the text: sum(1 for term in terms if term in text)
CountIn(terms, text) == Cardinality({i \in 1..Len(terms) : Contains(text, terms[i])})

\* the final elif chain of _calculate_bm25_scores: the coverage multiplier, in tenths
CoverageMultiplier(present, main_count) ==
    IF main_count = 0 THEN 10
    ELSE IF present = main_count THEN 30
    ELSE IF 4 * present >= 3 * main_count THEN 20
    ELSE IF 2 * present >= main_count THEN 15
    ELSE 7

\* the exact-phrase boost: the first of title, description and content that holds
\* the whole query decides the factor, in tenths
ExactBoost(score, title, description, content, original_query, factors) ==
    IF Contains(title, original_query) THEN (score * factors[1]) \div 10
    ELSE IF Contains(description, original_query) THEN (score * factors[2]) \div 10
    ELSE IF Contains(content, original_query) THEN (score * factors[3]) \div 10
    ELSE score

\* score *= 1.0 + (gain / unit) * (matched / total), when total > 0 and matched > 0
RatioBoost(score, total, matched, unit, gain) ==
    IF total > 0 /\ matched > 0
    THEN (score * (unit * total + gain * matched)) \div (unit * total)
    ELSE score

\* score *= 1.0 + proximity_score * 0.5, when proximity_score > 0
ProximityBoost(score, proximity_score) ==
    IF proximity_score > 0 THEN MulDiv(score, 2 * SCALE + proximity_score, 2 * SCALE) ELSE score

\* proximity_score of a document, computed when there are two main terms or more
ProximityOf(content, main_query_terms) ==
    IF Len(main_query_terms) > 1 /\ content # <<>>
    THEN _calculate_term_proximity(content, main_query_terms) ELSE 0

\* The boosts of _calculate_bm25_scores that read the lower-cased fields of one
\* document: exact phrase, main terms and query tokens in title and description,
\* proximity.
FieldBoosts(score, title, description, content, original_query_tokens, original_query, main_query_terms) ==
    ProximityBoost(
        RatioBoost(
          RatioBoost(
            RatioBoost(
              RatioBoost(
                ExactBoost(score, title, description, content, original_query, <<20, 17, 14>>),
                Len(main_query_terms), CountIn(main_query_terms, title), 2, 5),
              Len(main_query_terms), CountIn(main_query_terms, description), 2, 3),
            Len(original_query_tokens), CountIn(original_query_tokens, title), 1, 2),
          Len(original_query_tokens), CountIn(original_query_tokens, description), 1, 1),
        ProximityOf(content, main_query_terms))

\* The boosts of _calculate_bm25_scores on the lower-cased fields of one document.
BoostedFields(score, title, description, content, original_query_tokens, original_query, main_query_terms, present) ==
    (FieldBoosts(score, title, description, content, original_query_tokens, original_query,
                 main_query_terms)
     * CoverageMultiplier(present, Len(main_query_terms))) \div 10

\* The boosts of _calculate_bm25_scores applied to one document's score.
BoostedScore(ix, doc_id, score, original_query_tokens, original_query, main_query_terms, presence) ==
    BoostedFields(score,
                  Lower(GetText(ix.document_map[doc_id], "title")),
                  Lower(GetText(ix.document_map[doc_id], "description")),
                  Lower(GetText(ix.document_map[doc_id], "content_snippet")),
                  original_query_tokens, original_query, main_query_terms,
                  PresenceCount(presence, doc_id))

\* OptimizedSearchIndexer._calculate_bm25_scores: the dict scores, in insertion order
_calculate_bm25_scores(ix, query_tokens, original_query_tokens, original_query, main_query_terms) ==
    LET acc == ScoreTerms(ix, query_tokens, original_query_tokens, main_query_terms,
                          [scores |-> <<>>, presence |-> {}])
    IN  [i \in 1..Len(acc.scores) |->
            LET doc_id == acc.scores[i][1]
            IN  IF doc_id \in DOMAIN ix.document_map
                THEN <<doc_id, BoostedScore(ix, doc_id, acc.scores[i][2], original_query_tokens,
                                            original_query, main_query_terms, acc.presence)>>
                ELSE acc.scores[i]]

(***************************************************************************)
(* search_engine/indexer/optimize_index.py and the result snippet          *)
(***************************************************************************)
DOTS == <<".", ".", ".">>

\* 0-based positions i of snippet at which the loop of truncate_content_snippet
\* breaks: a newline that is at least the third, or i >= max_chars
CutPositions(snippet, max_chars) ==
    {i \in 0..(Len(snippet) - 1) :
        \/ /\ snippet[i + 1] = NL
           /\ Cardinality({j \in 1..(i + 1) : snippet[j] = NL}) >= 3
        \/ i >= max_chars}

\* A truncation that marks every snippet as cut.
truncate_marks_always(snippet, max_chars) == Prefix(snippet, max_chars) \o DOTS

\* truncate_content_snippet(snippet, max_chars)
truncate_content_snippet(snippet, max_chars) ==
    IF snippet = <<>> THEN <<>>
    ELSE LET cuts    == CutPositions(snippet, max_chars)
             end_pos == IF cuts = {} THEN 0 ELSE SetMin(cuts)
         IN  IF end_pos > 0 THEN Prefix(snippet, end_pos) \o DOTS
             ELSE IF Len(snippet) > max_chars THEN Prefix(snippet, max_chars) \o DOTS
             ELSE snippet

(***************************************************************************)
(* search_engine/indexer/bert_embeddings.py                                *)
(***************************************************************************)
\* The distance faiss reports for a neighbour it did not find (the largest float32);
\* 1 / (1 + distance) is then 0 in units of 1/SCALE.
NOT_FOUND == 0 - 1

\* Squared L2 distance of two embeddings, in units of 1/SCALE.  An embedding is
\* modelled by one integer coordinate.
L2(u, v) == (u - v) * (u - v) * SCALE

RECURSIVE NearestOrder(_, _, _)
\* positions (0-based) of the stored vectors by increasing distance to e, ties
\* by position: the order in which IndexFlatL2.search reports them
NearestOrder(index, e, left) ==
    IF left = {} THEN <<>>
    ELSE LET best == CHOOSE p \in left : \A q \in left :
                        \/ L2(index[p + 1], e) < L2(index[q + 1], e)
                        \/ L2(index[p + 1], e) = L2(index[q + 1], e) /\ p <= q
         IN  <<best>> \o NearestOrder(index, e, left \ {best})

\* self.index.search(query_embedding, top_k): k pairs <<position, distance>>,
\* filled with <<-1, NOT_FOUND>> when fewer than k vectors are stored
FaissSearch(index, e, k) ==
    LET order == NearestOrder(index, e, 0..(Len(index) - 1))
    IN  [i \in 1..k |-> IF i <= Len(order) THEN <<order[i], L2(index[order[i] + 1], e)>>
                        ELSE <<-1, NOT_FOUND>>]

\* 1.0 / (1.0 + distance)
Similarity(distance) ==
    IF distance = NOT_FOUND THEN 0 ELSE (SCALE * SCALE) \div (SCALE + distance)

\* self.doc_ids[idx] of Python: a negative idx counts from the end
PyIndex(list, idx) == IF idx < 0 THEN list[Len(list) + idx + 1] ELSE list[idx + 1]

\* The result loop of BertEmbeddings.search over the neighbours faiss returned.
BertResults(doc_ids, found) ==
    LET kept(pair) == pair[1] < Len(doc_ids)
        hits       == SelectSeq(found, kept)
    IN  [i \in 1..Len(hits) |-> <<PyIndex(doc_ids, hits[i][1]), Similarity(hits[i][2])>>]

\* What faiss_index.bin and doc_ids.json hold when they can be read: one
\* embedding per document of the corpus, and the parallel list of doc ids.
VectorFiles ==
    [index   |-> [vectors |-> <<0, 1, 2, 0, 1, 2>>],
     doc_ids |-> <<"d1", "d2", "d3", "d4", "d5", "d6">>]

\* BertEmbeddings.__init__: nothing is loaded
NewBertEmbeddings == [index |-> None, doc_ids |-> <<>>, model |-> "None"]

\* BertEmbeddings.load_index(): files is "ok", "absent" (a file does not exist),
\* "corrupt" (reading faiss_index.bin raises) or "corrupt_ids" (reading doc_ids.json
\* raises, after the index was read).  Returns the success flag and the object after
\* the call.
BertLoadIndex(be, files) ==
    IF files = "ok"
    THEN [ok |-> TRUE, be |-> [be EXCEPT !.index = VectorFiles.index,
                                         !.doc_ids = VectorFiles.doc_ids]]
    ELSE IF files = "corrupt_ids"
    THEN [ok |-> FALSE, be |-> [be EXCEPT !.index = VectorFiles.index]]
    ELSE [ok |-> FALSE, be |-> be]

\* BertEmbeddings.search(query, top_k).  env.files is the state of the index files,
\* env.model says whether the sentence-transformer model can be loaded and used
\* ("ok") or raises ("raise"), env.embedding is the query's embedding.
\* Returns [raised, results, be].
BertSearch(be, env, top_k) ==
    LET need   == be.index = None \/ be.doc_ids = <<>>
        loaded == IF need THEN BertLoadIndex(be, env.files)
                  ELSE [ok |-> TRUE, be |-> be]
    IN  IF ~loaded.ok THEN [raised |-> FALSE, results |-> <<>>, be |-> loaded.be]
        ELSE IF env.model = "raise" THEN [raised |-> TRUE, results |-> <<>>, be |-> loaded.be]
        ELSE IF top_k <= 0
             \* faiss rejects k <= 0 (assert k > 0)
             THEN [raised |-> TRUE, results |-> <<>>, be |-> [loaded.be EXCEPT !.model = "loaded"]]
        ELSE IF loaded.be.doc_ids = <<>> /\ top_k > Len(loaded.be.index.vectors)
             \* doc_ids[-1] of an empty list: IndexError
             THEN [raised |-> TRUE, results |-> <<>>, be |-> [loaded.be EXCEPT !.model = "loaded"]]
        ELSE [raised  |-> FALSE,
              results |-> BertResults(loaded.be.doc_ids,
                                      FaissSearch(loaded.be.index.vectors, env.embedding, top_k)),
              be      |-> [loaded.be EXCEPT !.model = "loaded"]]

(***************************************************************************)
(* search_engine/indexer/optimized_indexer.py: search                      *)
(***************************************************************************)
\* INDEXER_CONFIG["min_token_length"], INDEXER_CONFIG["max_token_length"]
min_token_length == 2
max_token_length == 20

\* The stopwords file, restricted to the vocabulary.
stopwords == {w_the, w_of, w_a}

\* min_relevance_threshold = 0.08
min_relevance_threshold == (8 * SCALE) \div 100

\* BERT_CONFIG["hybrid_weight"] = 0.3, in tenths
bert_weight == 3

excluded_domains ==
    { <<"o","p","e","n",".","s","p","o","t","i","f","y",".","c","o","m">>,
      <<"s","p","o","t","i","f","y",".","c","o","m">>,
      <<"p","o","d","c","a","s","t","s",".","a","p","p","l","e",".","c","o","m">>,
      <<"p","o","d","c","a","s","t","s",".","g","o","o","g","l","e",".","c","o","m">> }

\* The order in which the documents of the corpus are named.
DocOrder == <<"d1", "d2", "d3", "d4", "d5", "d6">>
DocRank(d) == CHOOSE i \in 1..Len(DocOrder) : DocOrder[i] = d

RECURSIVE SetToSeq(_, _)
\* Iteration over a Python set of doc ids.  The order depends on the hashes of
\* the strings; "asc" and "desc" are two orders it can take.
SetToSeq(S, order) ==
    IF S = {} THEN <<>>
    ELSE LET x == CHOOSE d \in S : \A o \in S :
                      IF order = "asc" THEN DocRank(d) <= DocRank(o)
                      ELSE DocRank(d) >= DocRank(o)
         IN  <<x>> \o SetToSeq(S \ {x}, order)

\* A filter that drops stopwords and keeps a token of any length.
FilterTokens_any_length(tokens) ==
    LET keep(t) == t \notin stopwords
    IN  SelectSeq(tokens, keep)

\* [token for token in tokens if token not in stopwords and min <= len(token) <= max]
FilterTokens(tokens) ==
    LET keep(t) == t \notin stopwords /\ min_token_length <= Len(t) /\ Len(t) <= max_token_length
    IN  SelectSeq(tokens, keep)

\* max(scores.values()) of a non-empty dict
MaxScore(scores) == SetMax({scores[i][2] : i \in 1..Len(scores)})

\* the normalisation of a dict of scores by its maximum, skipped when the dict is
\* empty or the maximum is not positive
Normalized(scores) ==
    IF scores = <<>> THEN scores
    ELSE LET max_score == MaxScore(scores)
         IN  IF max_score > 0
             THEN [i \in 1..Len(scores) |-> <<scores[i][1], MulDiv(scores[i][2], SCALE, max_score)>>]
             ELSE scores

\* A ranking that leaves the items in the order of the dict.
SortedDesc_unsorted(items) == items

RECURSIVE SortedDesc(_)
\* sorted(scores.items(), key=lambda x: x[1], reverse=True): stable
SortedDesc(items) ==
    IF items = <<>> THEN <<>>
    ELSE LET top == MaxScore(items)
             i   == CHOOSE j \in 1..Len(items) :
                        items[j][2] = top /\ \A l \in 1..(j - 1) : items[l][2] # top
         IN  <<items[i]>> \o SortedDesc(SubSeq(items, 1, i - 1) \o SubSeq(items, i + 1, Len(items)))

\* {doc_id: score for doc_id, score in pairs}, added to the dict d: a later pair
\* replaces the value of an earlier one with the same key and keeps its place
DictFromPairs(pairs, d) ==
    LET all      == d \o pairs
        first(i) == \A j \in 1..(i - 1) : all[j][1] # all[i][1]
        places   == SelectSeq([i \in 1..Len(all) |-> i], first)
        last(k)  == SetMax({j \in 1..Len(all) : all[j][1] = k})
    IN  [n \in 1..Len(places) |-> <<all[places[n]][1], all[last(all[places[n]][1])][2]>>]

\* A combination over the documents that BM25 scored only.
CombinedScores_bm25_only(bm25_scores, bert_scores, order) ==
    [i \in 1..Len(bm25_scores) |->
        <<bm25_scores[i][1],
          ((10 - bert_weight) * Normalized(bm25_scores)[i][2]) \div 10
          + (bert_weight * DictGet(bert_scores, bm25_scores[i][1], 0)) \div 10>>]

\* the hybrid combination of lines 246-266: scores over the union of both key sets
CombinedScores(bm25_scores, bert_scores, order) ==
    LET normalized_bm25_scores == Normalized(bm25_scores)
        all_doc_ids == SetToSeq(DictKeys(normalized_bm25_scores) \cup DictKeys(bert_scores), order)
    IN  [i \in 1..Len(all_doc_ids) |->
            <<all_doc_ids[i],
              ((10 - bert_weight) * DictGet(normalized_bm25_scores, all_doc_ids[i], 0)) \div 10
              + (bert_weight * DictGet(bert_scores, all_doc_ids[i], 0)) \div 10>>]

Range(seq) == {seq[i] : i \in 1..Len(seq)}

\* _get_main_term_document_presence(main_terms): the pairs <<doc_id, term>>
_get_main_term_document_presence(self, main_terms) ==
    UNION { {<<posting[1], term>> : posting \in Range(self.inverted_index[term])} :
              term \in Range(main_terms) \cap DOMAIN self.inverted_index }

\* whether the url of a document names an excluded domain
IsExcluded(doc_info) ==
    \E domain \in excluded_domains : Contains(Lower(GetText(doc_info, "url")), domain)

\* One entry of the list search returns.  doc_id is not a field of the entry in
\* the code; it is kept to name the document the entry stands for.
ResultEntry(self, doc_id, score, main_query_terms, main_term_presence) ==
    LET doc_info == self.document_map[doc_id]
        snippet  == GetText(doc_info, "content_snippet")
    IN  [doc_id             |-> doc_id,
         url                |-> doc_info["url"],
         title              |-> doc_info["title"],
         description        |-> GetText(doc_info, "description"),
         content_snippet    |-> truncate_content_snippet(snippet, 200),
         score              |-> score,
         main_terms_matched |-> IF main_query_terms # <<>>
                                THEN PresenceCount(main_term_presence, doc_id) ELSE 0,
         search_method      |-> IF self.use_hybrid_search THEN "Hybrid BM25+BERT" ELSE "BM25"]

\* whether the loop of lines 306-356 appends the document
PassesGates(self, doc_id, score, main_query_terms, main_term_presence) ==
    /\ doc_id \in DOMAIN self.document_map
    /\ score > min_relevance_threshold
    /\ ~IsExcluded(self.document_map[doc_id])
    /\ ~ /\ main_query_terms # <<>>
         /\ \E pr \in main_term_presence : pr[1] = doc_id
         /\ PresenceCount(main_term_presence, doc_id) < Max2(1, Len(main_query_terms) \div 2)

RECURSIVE FormatResults(_, _, _, _, _, _)
\* the loop of lines 306-356 over top_docs, stopping once top_k results are held
FormatResults(self, top_docs, top_k, main_query_terms, main_term_presence, acc) ==
    IF top_docs = <<>> THEN acc
    ELSE LET doc_id == Head(top_docs)[1]
             score  == Head(top_docs)[2]
         IN  IF PassesGates(self, doc_id, score, main_query_terms, main_term_presence)
             THEN LET next == Append(acc, ResultEntry(self, doc_id, score, main_query_terms,
                                                      main_term_presence))
                  IN  IF Len(next) >= top_k THEN next
                      ELSE FormatResults(self, Tail(top_docs), top_k, main_query_terms,
                                         main_term_presence, next)
             ELSE FormatResults(self, Tail(top_docs), top_k, main_query_terms,
                                main_term_presence, acc)

\* A candidate window of top_k documents instead of 3 * top_k.
TopDocs_top_k(sorted_docs, top_k) == Prefix(sorted_docs, top_k)

\* sorted_docs[:top_k*3]
TopDocs(sorted_docs, top_k) == Prefix(sorted_docs, top_k * 3)

\* whether _calculate_bm25_scores divides by an average_doc_length of 0
\* (ZeroDivisionError): some query token has a posting of a document with a length
DividesByZero(self, query_tokens) ==
    /\ self.average_doc_length = 0
    /\ \E qt \in Range(query_tokens) \cap DOMAIN self.inverted_index :
          \E posting \in Range(self.inverted_index[qt]) : posting[1] \in DOMAIN self.document_lengths

\* whether the boosting loop of _calculate_bm25_scores calls lower() on None
\* (AttributeError): a document that received a score has a stored title,
\* description or content_snippet that is null
LowersNone(self, query_tokens) ==
    \E qt \in Range(query_tokens) \cap DOMAIN self.inverted_index :
        \E posting \in Range(self.inverted_index[qt]) :
            /\ posting[1] \in DOMAIN self.document_lengths
            /\ posting[1] \in DOMAIN self.document_map
            /\ \E field \in {"title", "description", "content_snippet"} :
                   GetText(self.document_map[posting[1]], field) = JsonNull

\* whether _calculate_bm25_scores raises; nothing in it or in search catches
ScoringRaises(self, query_tokens) ==
    DividesByZero(self, query_tokens) \/ LowersNone(self, query_tokens)

\* what search returns when it returns before reading the index
EmptyOutcome(self) ==
    [raised |-> FALSE, results |-> <<>>, touched |-> FALSE, path |-> "empty",
     bm25_scores |-> <<>>, sorted_docs |-> <<>>, be |-> self.bert_embeddings]

\* search, lines 287-358: the scores are ranked, cut to the candidates and
\* formatted.  path names the branch that produced the scores.
SearchRanked(self, top_k, main_query_terms, path, bm25_scores, sorted_docs, be) ==
    [raised      |-> FALSE,
     results     |-> FormatResults(self, TopDocs(sorted_docs, top_k), top_k, main_query_terms,
                                   _get_main_term_document_presence(self, main_query_terms),
                                   <<>>),
     touched     |-> TRUE,
     path        |-> path,
     bm25_scores |-> bm25_scores,
     sorted_docs |-> sorted_docs,
     be          |-> be]

\* search, lines 229-273: the try block of the hybrid branch; bert is what
\* self.bert_embeddings.search(query, top_k=top_k*3) did
SearchHybrid(self, top_k, env, main_query_terms, bm25_scores, bert) ==
    IF bert.raised
    THEN SearchRanked(self, top_k, main_query_terms, "fallback", bm25_scores,
                      SortedDesc(bm25_scores), bert.be)
    ELSE SearchRanked(self, top_k, main_query_terms, "hybrid", bm25_scores,
                      SortedDesc(CombinedScores(bm25_scores, DictFromPairs(bert.results, <<>>),
                                                env.order)),
                      bert.be)

\* search, lines 228-285: the scores of the hybrid or of the BM25-only branch
SearchScored(self, top_k, env, main_query_terms, bm25_scores) ==
    IF self.use_hybrid_search /\ self.bert_embeddings # None
    THEN SearchHybrid(self, top_k, env, main_query_terms, bm25_scores,
                      BertSearch(self.bert_embeddings, env, top_k * 3))
    ELSE SearchRanked(self, top_k, main_query_terms, "bm25", bm25_scores,
                      SortedDesc(Normalized(bm25_scores)), self.bert_embeddings)

\* search, lines 221-226: the second early return and the BM25 scores
SearchTokens(self, top_k, env, original_query, query_tokens, main_query_terms, filtered_query_tokens) ==
    IF filtered_query_tokens = <<>> THEN EmptyOutcome(self)
    ELSE IF ScoringRaises(self, filtered_query_tokens)
    THEN [raised |-> TRUE, results |-> <<>>, touched |-> TRUE, path |-> "raised",
          bm25_scores |-> <<>>, sorted_docs |-> <<>>, be |-> self.bert_embeddings]
    ELSE SearchScored(self, top_k, env, main_query_terms,
                      _calculate_bm25_scores(self, filtered_query_tokens, query_tokens,
                                             original_query, main_query_terms))

\* OptimizedSearchIndexer.search(query, top_k) for top_k >= 0.  self is the indexer,
\* env the environment of the call (see BertSearch; env.order is the iteration
\* order of the set all_doc_ids, env.nltk is NLTK_AVAILABLE).
\* Returns the list returned (results) or that the call raised, with what the call
\* did: whether it read the index (touched), the branch taken (path), the raw BM25
\* scores, the final scores in ranked order (sorted_docs), and the BertEmbeddings
\* object after the call (be).
search(self, query, top_k, env) ==
    IF query = <<>> \/ Strip(query) = <<>> THEN EmptyOutcome(self)
    ELSE SearchTokens(self, top_k, env,
                      Strip(Lower(query)),
                      tokenize(query, env.nltk),
                      identify_main_terms(query, stopwords, env.nltk),
                      FilterTokens(tokenize(expand_query(query, env.nltk), env.nltk)))

(***************************************************************************)
(* The index files.                                                        *)
(***************************************************************************)
Dots(text) == text \o DOTS
Text2(a, b) == a \o <<SP>> \o b
Text3(a, b, c) == a \o <<SP>> \o b \o <<SP>> \o c
UrlOf(host, n) == host \o <<"/", n>>

h_spotify == <<"s","p","o","t","i","f","y",".","c","o","m">>
h_open    == <<"o","p","e","n",".">> \o h_spotify
h_apple   == <<"p","o","d","c","a","s","t","s",".","a","p","p","l","e",".","c","o","m">>
h_blog    == <<"b",".","i","o">>

\* The index a build left in the source index directory, for the corpus
\*   d1  title "AI",          content "blog"
\*   d2  title "ai",          content "the ai"
\*   d3  title "web",         no content
\*   d4  title "web",         content "about web code"
\*   d5  title "python",      content "about"
\*   d6  title "python blog", meta description "blog", content "python"
\* with title_boost 5, meta_boost 3 and the stopwords above.
SourceIndex ==
    [document_map |->
        [d \in {"d1", "d2", "d3", "d4", "d5", "d6"} |->
            CASE d = "d1" -> [url |-> UrlOf(h_spotify, "1"), title |-> <<"A","I">>,
                              description |-> <<>>, content_snippet |-> Dots(w_blog),
                              confidence |-> 9, method |-> "domain"]
              [] d = "d2" -> [url |-> UrlOf(h_open, "2"), title |-> w_ai,
                              description |-> <<>>, content_snippet |-> Dots(Text2(w_the, w_ai)),
                              confidence |-> 8, method |-> "header"]
              [] d = "d3" -> [url |-> UrlOf(h_apple, "3"), title |-> w_web,
                              description |-> <<>>, content_snippet |-> <<>>]
              [] d = "d4" -> [url |-> UrlOf(h_blog, "4"), title |-> w_web,
                              description |-> <<>>,
                              content_snippet |-> Dots(Text3(w_about, w_web, w_code))]
              [] d = "d5" -> [url |-> UrlOf(h_blog, "5"), title |-> w_python,
                              description |-> <<>>, content_snippet |-> Dots(w_about)]
              [] d = "d6" -> [url |-> UrlOf(h_blog, "6"), title |-> Text2(w_python, w_blog),
                              description |-> w_blog, content_snippet |-> Dots(w_python)]],
     inverted_index |->
        [t \in {w_ai, w_blog, w_web, w_about, w_code, w_python} |->
            CASE t = w_ai     -> << <<"d1", 5>>, <<"d2", 6>> >>
              [] t = w_blog   -> << <<"d1", 1>>, <<"d6", 8>> >>
              [] t = w_web    -> << <<"d3", 5>>, <<"d4", 6>> >>
              [] t = w_about  -> << <<"d4", 1>>, <<"d5", 1>> >>
              [] t = w_code   -> << <<"d4", 1>> >>
              [] t = w_python -> << <<"d5", 5>>, <<"d6", 6>> >>],
     document_lengths |->
        [d \in {"d1", "d2", "d3", "d4", "d5", "d6"} |->
            CASE d = "d1" -> 6 [] d = "d2" -> 6 [] d = "d3" -> 5
              [] d = "d4" -> 8 [] d = "d5" -> 6 [] d = "d6" -> 14],
     average_doc_length |-> (45 * SCALE) \div 6]

(***************************************************************************)
(* Optimisation: optimize_index.py and OptimizedSearchIndexer._optimize_index *)
(***************************************************************************)
\* A dict without the keys of drop
Without(f, drop) == [k \in DOMAIN f \ drop |-> f[k]]

\* lines 81-85 of optimize_index(): every content_snippet truncated
TruncateSnippets(dm) ==
    [d \in DOMAIN dm |->
        IF "content_snippet" \in DOMAIN dm[d]
        THEN [dm[d] EXCEPT !["content_snippet"] = truncate_content_snippet(@, 200)]
        ELSE dm[d]]

\* min_doc_frequency of _optimize_index
min_doc_frequency == 2

\* A pruning that also removes the terms of exactly min_doc_frequency documents.
terms_to_remove_inclusive(inv) == {term \in DOMAIN inv : Len(inv[term]) <= min_doc_frequency}

\* terms_to_remove of _optimize_index
terms_to_remove(inv) == {term \in DOMAIN inv : Len(inv[term]) < min_doc_frequency}

\* lines 121-130 of _optimize_index for one document
OptimizedDocument(doc_info) ==
    LET cut == IF "content_snippet" \in DOMAIN doc_info
               THEN [doc_info EXCEPT !["content_snippet"] = Prefix(@, 100)]
               ELSE doc_info
    IN  Without(cut, {"confidence", "method"})

\* OptimizedSearchIndexer._optimize_index() on the index ix
_optimize_index(ix) ==
    [ix EXCEPT !.inverted_index = Without(@, terms_to_remove(@)),
               !.document_map   = [d \in DOMAIN @ |-> OptimizedDocument(@[d])]]

\* optimize_index(): the snippets of the source index are truncated, then the
\* index is optimised (optimize_from_existing) and written to the deployment directory
optimize_index(ix) == _optimize_index([ix EXCEPT !.document_map = TruncateSnippets(@)])

\* The files of the deployment index directory.
OptimizedIndex == optimize_index(SourceIndex)

(***************************************************************************)
(* search_engine/indexer/indexer.py: SearchIndexer.search                  *)
(***************************************************************************)
\* the 0.05 of line 332
plain_relevance_threshold == (5 * SCALE) \div 100

\* SearchIndexer._generate_relevant_snippet(doc_info, query_tokens)
_generate_relevant_snippet(doc_info, query_tokens) ==
    LET content       == GetText(doc_info, "content_snippet")
        content_lower == Lower(content)
        window_size   == 200
        starts        == {i \in 0..(Len(content) - window_size - 1) : i % 20 = 0}
        count(i)      == CountIn(query_tokens, Slice(content_lower, i, i + window_size))
        best_count    == IF starts = {} THEN 0 ELSE SetMax({count(i) : i \in starts})
        best_start    == SetMin({i \in starts : count(i) = best_count})
    IN  IF content = <<>> \/ query_tokens = <<>> THEN content
        ELSE IF best_count > 0
             THEN Slice(content, best_start, best_start + window_size) \o DOTS
        ELSE IF Len(content) > 200 THEN Prefix(content, 200) \o DOTS
        ELSE content

\* score *= 1.25 when every query token occurs in the content of a query of two
\* tokens or more
AllTermsBoost(score, content, original_query_tokens) ==
    IF Len(original_query_tokens) > 1
       /\ CountIn(original_query_tokens, content) = Len(original_query_tokens)
    THEN (score * 125) \div 100 ELSE score

\* The boosts of SearchIndexer._calculate_bm25_scores on the lower-cased fields of
\* one document.
PlainBoostedFields(score, title, description, content, original_query_tokens, original_query) ==
    AllTermsBoost(
        RatioBoost(
          RatioBoost(
            ExactBoost(score, title, description, content, original_query, <<18, 15, 13>>),
            Len(original_query_tokens), CountIn(original_query_tokens, title), 1, 2),
          Len(original_query_tokens), CountIn(original_query_tokens, description), 1, 1),
        content, original_query_tokens)

\* The boosts of SearchIndexer._calculate_bm25_scores applied to one document's score.
PlainBoostedScore(ix, doc_id, score, original_query_tokens, original_query) ==
    PlainBoostedFields(score,
                       Lower(GetText(ix.document_map[doc_id], "title")),
                       Lower(GetText(ix.document_map[doc_id], "description")),
                       Lower(GetText(ix.document_map[doc_id], "content_snippet")),
                       original_query_tokens, original_query)

\* SearchIndexer._calculate_bm25_scores: the term loop is that of the optimised
\* engine without main terms (term_importance is 1.8 or 1.0)
SearchIndexer_calculate_bm25_scores(ix, query_tokens, original_query_tokens, original_query) ==
    LET acc == ScoreTerms(ix, query_tokens, original_query_tokens, <<>>,
                          [scores |-> <<>>, presence |-> {}])
    IN  [i \in 1..Len(acc.scores) |->
            LET doc_id == acc.scores[i][1]
            IN  IF doc_id \in DOMAIN ix.document_map
                THEN <<doc_id, PlainBoostedScore(ix, doc_id, acc.scores[i][2],
                                                 original_query_tokens, original_query)>>
                ELSE acc.scores[i]]

\* the loop of lines 331-340
PlainResults(self, top_docs, original_query_tokens) ==
    LET keep(item) == item[1] \in DOMAIN self.document_map /\ item[2] > plain_relevance_threshold
        kept       == SelectSeq(top_docs, keep)
    IN  [i \in 1..Len(kept) |->
            LET doc_info == self.document_map[kept[i][1]]
            IN  [doc_id          |-> kept[i][1],
                 url             |-> doc_info["url"],
                 title           |-> doc_info["title"],
                 description     |-> doc_info["description"],
                 content_snippet |-> _generate_relevant_snippet(doc_info, original_query_tokens),
                 score           |-> kept[i][2]]]

\* SearchIndexer.search, lines 323-342: ranked, cut to top_k and formatted
PlainRanked(self, top_k, original_query_tokens, bm25_scores, sorted_docs) ==
    [raised      |-> FALSE,
     results     |-> PlainResults(self, Prefix(sorted_docs, top_k), original_query_tokens),
     touched     |-> TRUE,
     path        |-> "plain",
     bm25_scores |-> bm25_scores,
     sorted_docs |-> sorted_docs,
     be          |-> self.bert_embeddings]

\* SearchIndexer.search, lines 314-321: the scores and their normalisation
PlainScored(self, top_k, original_query_tokens, bm25_scores) ==
    PlainRanked(self, top_k, original_query_tokens, bm25_scores,
                SortedDesc(Normalized(bm25_scores)))

\* SearchIndexer.search, lines 303-312: the second early return and the BM25 scores
PlainTokens(self, top_k, original_query, original_query_tokens, filtered_query_tokens) ==
    IF filtered_query_tokens = <<>> THEN EmptyOutcome(self)
    ELSE IF ScoringRaises(self, filtered_query_tokens)
    THEN [raised |-> TRUE, results |-> <<>>, touched |-> TRUE, path |-> "raised",
          bm25_scores |-> <<>>, sorted_docs |-> <<>>, be |-> self.bert_embeddings]
    ELSE PlainScored(self, top_k, original_query_tokens,
                     SearchIndexer_calculate_bm25_scores(self, filtered_query_tokens,
                                                         original_query_tokens, original_query))

\* SearchIndexer.search(query, top_k) for top_k >= 0; the outcome is as for search
SearchIndexer_search(self, query, top_k, env) ==
    IF query = <<>> \/ Strip(query) = <<>> THEN EmptyOutcome(self)
    ELSE PlainTokens(self, top_k,
                     Strip(Lower(query)),
                     tokenize(query, env.nltk),
                     FilterTokens(tokenize(expand_query(query, env.nltk), env.nltk)))

(***************************************************************************)
(* The effect of a search on self.inverted_index, a defaultdict(list).     *)
(***************************************************************************)
\* d after d[k] was evaluated for every k of keys: a defaultdict inserts a key it
\* does not hold, with an empty list
DefaultDictAfter(d, keys) ==
    [k \in DOMAIN d \cup keys |-> IF k \in DOMAIN d THEN d[k] ELSE <<>>]

\* A search that subscripts the index with every token and main term of the query.
SubscriptedTerms_unguarded(self, query_tokens, main_terms) ==
    Range(query_tokens) \cup Range(main_terms)

\* The keys with which a search subscripts self.inverted_index: the loop over the
\* query tokens of _calculate_bm25_scores and the loop over the main terms of
\* _get_main_term_document_presence, each under `if term in self.inverted_index`
SubscriptedTerms(self, query_tokens, main_terms) ==
    (Range(query_tokens) \cup Range(main_terms)) \cap DOMAIN self.inverted_index

\* self.inverted_index after search(query): main_terms are the main terms of the
\* query in OptimizedSearchIndexer.search, none in SearchIndexer.search
InvertedIndexAfter(self, query, query_tokens, main_terms) ==
    IF query = <<>> \/ Strip(query) = <<>> \/ query_tokens = <<>> THEN self.inverted_index
    ELSE DefaultDictAfter(self.inverted_index, SubscriptedTerms(self, query_tokens, main_terms))

(***************************************************************************)
(* The indexer object and its loads.                                       *)
(***************************************************************************)
\* The indexer object, as the operators above take it.
Self ==
    [document_map       |-> document_map,
     inverted_index     |-> inverted_index,
     document_lengths   |-> document_lengths,
     average_doc_length |-> average_doc_length,
     use_hybrid_search  |-> use_hybrid_search,
     bert_embeddings    |-> bert_embeddings]

\* __init__: the fields of a new indexer
NewIndexer ==
    /\ document_map = <<>>
    /\ inverted_index = <<>>
    /\ document_lengths = <<>>
    /\ average_doc_length = 0
    /\ use_hybrid_search = FALSE
    /\ bert_embeddings = None

\* A load that keeps the hybrid flag the caller asked for, whatever load_index returns.
LoadHybrid_flag_kept(prev, use_hybrid, import, files) ==
    IF ~use_hybrid THEN [use_hybrid_search |-> FALSE, bert_embeddings |-> prev]
    ELSE IF import = "raise" THEN [use_hybrid_search |-> FALSE, bert_embeddings |-> prev]
    ELSE [use_hybrid_search |-> TRUE, bert_embeddings |-> BertLoadIndex(NewBertEmbeddings, files).be]

\* load_optimized_index(use_hybrid_search), lines 176-191: the hybrid flag and the
\* BertEmbeddings object after the index files were read.  import is "raise"
\* when bert_embeddings could not be imported, so that BertEmbeddings(...) raises.
LoadHybrid(prev, use_hybrid, import, files) ==
    IF ~use_hybrid THEN [use_hybrid_search |-> FALSE, bert_embeddings |-> prev]
    ELSE IF import = "raise" THEN [use_hybrid_search |-> FALSE, bert_embeddings |-> prev]
    ELSE LET loaded == BertLoadIndex(NewBertEmbeddings, files)
         IN  [use_hybrid_search |-> loaded.ok, bert_embeddings |-> loaded.be]

(***************************************************************************)
(* Specification SpecSearch: one indexer is loaded and then queried.       *)
(***************************************************************************)
\* Bounds of the queries.
MaxTopK == 2
MaxEmbedding == 2

LongWord == [i \in 1..(max_token_length + 1) |-> "z"]

Queries ==
    { <<>>,
      <<SP, SP>>,
      Text2(w_the, w_of),
      w_a,
      LongWord,
      w_python,
      <<"P","y","t","h","o","n","!",SP,"b","l","o","g","s">>,
      Text2(w_ai, w_web),
      Text2(w_about, w_code),
      Text2(w_about, w_python),
      Text3(w_python, w_ai, w_blogs),
      <<SP>> \o w_blogs \o <<NL>> }

NoCall  == [op |-> "none", query |-> <<>>, top_k |-> 0, env |-> None]
NoTrace == [raised |-> FALSE, touched |-> FALSE, path |-> "none", bm25_scores |-> <<>>,
            sorted_docs |-> <<>>]

LoadOptions ==
    { [use_hybrid |-> FALSE, import |-> "ok", files |-> "ok"],
      [use_hybrid |-> TRUE,  import |-> "ok", files |-> "ok"],
      [use_hybrid |-> TRUE,  import |-> "ok", files |-> "absent"],
      [use_hybrid |-> TRUE,  import |-> "ok", files |-> "corrupt"],
      [use_hybrid |-> TRUE,  import |-> "ok", files |-> "corrupt_ids"],
      [use_hybrid |-> TRUE,  import |-> "raise", files |-> "ok"] }

\* The state of the vector index files, as the load found them.
LoadedFiles == IF load_args = None THEN "absent" ELSE load_args.files

\* The environments of a query: only a hybrid query reads its environment.
Environments ==
    IF use_hybrid_search /\ bert_embeddings # None
    THEN [nltk : {NLTK_AVAILABLE}, files : {LoadedFiles}, model : {"ok", "raise"},
          embedding : {0, MaxEmbedding}, order : {"asc", "desc"}]
    ELSE [nltk : {NLTK_AVAILABLE}, files : {LoadedFiles}, model : {"ok"},
          embedding : {0}, order : {"asc"}]

InitSearch ==
    /\ NewIndexer
    /\ phase = "new"
    /\ call = NoCall
    /\ results = <<>>
    /\ trace = NoTrace
    /\ index_loaded = FALSE
    /\ pc = <<>>
    /\ loads = <<>>
    /\ snapshot = None
    /\ load_args = None
    /\ NLTK_AVAILABLE \in BOOLEAN
    /\ NoCrawler

\* indexer.load_optimized_index(use_hybrid_search) with readable index files
LoadOptimized(opt) ==
    /\ phase = "new"
    /\ document_map' = OptimizedIndex.document_map
    /\ inverted_index' = OptimizedIndex.inverted_index
    /\ document_lengths' = OptimizedIndex.document_lengths
    /\ average_doc_length' = OptimizedIndex.average_doc_length
    /\ LET h == LoadHybrid(bert_embeddings, opt.use_hybrid, opt.import, opt.files)
       IN  /\ use_hybrid_search' = h.use_hybrid_search
           /\ bert_embeddings' = h.bert_embeddings
    /\ load_args' = opt
    /\ phase' = "ready"
    /\ UNCHANGED <<call, results, trace, index_loaded, pc, loads, snapshot, NLTK_AVAILABLE, crawler_vars>>

\* SearchIndexer.load_index() with readable index files
LoadPlain ==
    /\ phase = "new"
    /\ document_map' = SourceIndex.document_map
    /\ inverted_index' = SourceIndex.inverted_index
    /\ document_lengths' = SourceIndex.document_lengths
    /\ average_doc_length' = SourceIndex.average_doc_length
    /\ load_args' = [use_hybrid |-> FALSE, import |-> "ok", files |-> "absent"]
    /\ phase' = "ready_plain"
    /\ UNCHANGED <<use_hybrid_search, bert_embeddings, call, results, trace, index_loaded,
                   pc, loads, snapshot, NLTK_AVAILABLE, crawler_vars>>

\* what a call leaves in the state: the list returned and what the call did
Returned(op, query, top_k, env, outcome) ==
    /\ call' = [op |-> op, query |-> query, top_k |-> top_k, env |-> env]
    /\ results' = outcome.results
    /\ trace' = [raised |-> outcome.raised, touched |-> outcome.touched, path |-> outcome.path,
                 bm25_scores |-> outcome.bm25_scores, sorted_docs |-> outcome.sorted_docs]
    /\ bert_embeddings' = outcome.be

\* OptimizedSearchIndexer.search(query, top_k)
Search(query, top_k, env) ==
    /\ phase = "ready"
    /\ Returned("search", query, top_k, env, search(Self, query, top_k, env))
    /\ inverted_index' =
          InvertedIndexAfter(Self, query,
                             FilterTokens(tokenize(expand_query(query, env.nltk), env.nltk)),
                             identify_main_terms(query, stopwords, env.nltk))
    /\ phase' = "returned"
    /\ UNCHANGED <<document_map, document_lengths, average_doc_length,
                   use_hybrid_search, index_loaded, pc, loads, snapshot, load_args, NLTK_AVAILABLE, crawler_vars>>

\* SearchIndexer.search(query, top_k)
PlainSearch(query, top_k, env) ==
    /\ phase = "ready_plain"
    /\ Returned("plain_search", query, top_k, env, SearchIndexer_search(Self, query, top_k, env))
    /\ inverted_index' =
          InvertedIndexAfter(Self, query,
                             FilterTokens(tokenize(expand_query(query, env.nltk), env.nltk)),
                             <<>>)
    /\ phase' = "returned_plain"
    /\ UNCHANGED <<document_map, document_lengths, average_doc_length,
                   use_hybrid_search, index_loaded, pc, loads, snapshot, load_args, NLTK_AVAILABLE, crawler_vars>>

\* the caller takes the list; the indexer waits for the next query
NextQuery ==
    /\ phase \in {"returned", "returned_plain"}
    /\ phase' = IF phase = "returned" THEN "ready" ELSE "ready_plain"
    /\ call' = NoCall
    /\ results' = <<>>
    /\ trace' = NoTrace
    /\ UNCHANGED <<document_map, inverted_index, document_lengths, average_doc_length,
                   use_hybrid_search, bert_embeddings, index_loaded, pc, loads, snapshot,
                   load_args, NLTK_AVAILABLE, crawler_vars>>

NextSearch ==
    \/ \E opt \in LoadOptions : LoadOptimized(opt)
    \/ LoadPlain
    \/ \E query \in Queries, top_k \in 0..MaxTopK, env \in Environments : Search(query, top_k, env)
    \/ \E query \in Queries, top_k \in 0..MaxTopK, env \in Environments : PlainSearch(query, top_k, env)
    \/ NextQuery

SpecSearch == InitSearch /\ [][NextSearch]_vars

(***************************************************************************)
(* Properties of search.                                                   *)
(***************************************************************************)
HasReturned == phase \in {"returned", "returned_plain"}

\* the documents and scores of the returned list, in order
ReturnedPairs == [i \in 1..Len(results) |-> <<results[i].doc_id, results[i].score>>]

\* C1: every result returned by search has a score in [0, 1], in SearchIndexer.search
\* and in every path of OptimizedSearchIndexer.search (BM25-only, hybrid, and hybrid
\* fallen back to the BM25 scores after the vector search raised).
C1_ScoresInUnitInterval ==
    HasReturned => \A i \in 1..Len(results) : 0 <= results[i].score /\ results[i].score <= SCALE

\* the query is empty or whitespace, or no token of its expansion survives the
\* stopword and length rules
FiltersToNothing(query, nltk) ==
    \/ Strip(query) = <<>>
    \/ \A t \in Range(tokenize(expand_query(query, nltk), nltk)) :
          \/ t \in stopwords
          \/ Len(t) < min_token_length
          \/ Len(t) > max_token_length

\* C2: for a query that is empty, whitespace-only, or whose expanded tokens are all
\* removed by the stopword and length filter, search returns an empty list without
\* raising and without reading the index or the vector index.
C2_EmptyQueryReturnsNothing ==
    HasReturned /\ FiltersToNothing(call.query, call.env.nltk)
        => /\ results = <<>>
           /\ ~trace.raised
           /\ ~trace.touched
           /\ trace.bm25_scores = <<>>

\* a hybrid indexer was asked a query of stopwords only, or of one over-long token
C2_Witness ==
    /\ phase = "returned"
    /\ use_hybrid_search
    /\ call.query \in {Text2(w_the, w_of), LongWord}
    /\ call.top_k > 0
    /\ results = <<>>

\* what a BM25-only search of the same query on the same index returns
BM25OnlyResults ==
    search([Self EXCEPT !.use_hybrid_search = FALSE], call.query, call.top_k, call.env).results

\* C4: when hybrid search is enabled and the vector search raises during a query,
\* search returns exactly the list a BM25-only search of the query returns (same
\* documents, order and normalised scores), each entry tagged "BM25".
C4_FallbackEqualsBM25Only ==
    phase = "returned" /\ trace.path = "fallback"
        => /\ ~trace.raised
           /\ results = BM25OnlyResults
           /\ \A i \in 1..Len(results) : results[i].search_method = "BM25"

\* the indexer load_optimized_index(use_hybrid_search=False) leaves
BM25Loaded ==
    [document_map       |-> OptimizedIndex.document_map,
     inverted_index     |-> OptimizedIndex.inverted_index,
     document_lengths   |-> OptimizedIndex.document_lengths,
     average_doc_length |-> OptimizedIndex.average_doc_length,
     use_hybrid_search  |-> FALSE,
     bert_embeddings    |-> None]

LoadedHybridWithoutVectorFiles ==
    /\ load_args # None
    /\ load_args.use_hybrid
    /\ load_args.import = "ok"
    /\ load_args.files = "absent"

\* C5: with the vector index files absent at load time, an indexer loaded with
\* use_hybrid_search=True returns for every query and every top_k the ordered list
\* an indexer loaded with use_hybrid_search=False returns.
C5_AbsentVectorFilesEqualBM25Only ==
    phase = "returned" /\ LoadedHybridWithoutVectorFiles
        => /\ ~trace.raised
           /\ results = search(BM25Loaded, call.query, call.top_k, call.env).results

\* such an indexer returned two documents
C5_Witness ==
    /\ phase = "returned"
    /\ LoadedHybridWithoutVectorFiles
    /\ Len(results) = 2
\* the main terms of the query of the call
MainTermsOfCall == identify_main_terms(call.query, stopwords, call.env.nltk)

\* the main terms for which the document has a posting
MainTermsIn(doc_id) ==
    {t \in Range(MainTermsOfCall) \cap DOMAIN inverted_index :
        \E posting \in Range(inverted_index[t]) : posting[1] = doc_id}

\* C6: when the query has a main term, every document OptimizedSearchIndexer.search
\* returns has postings for at least max(1, len(main terms) // 2) of the main terms.
C6_MainTermCoverage ==
    phase = "returned" /\ MainTermsOfCall # <<>>
        => \A i \in 1..Len(results) :
              Cardinality(MainTermsIn(results[i].doc_id)) >= Max2(1, Len(MainTermsOfCall) \div 2)

\* the ranked documents that pass the gates as the result loop applies them
PassingDocs(ranked) ==
    LET passes(item) == PassesGates(Self, item[1], item[2], MainTermsOfCall,
                                    _get_main_term_document_presence(Self, MainTermsOfCall))
    IN  SelectSeq(ranked, passes)

\* C7 as stated: the list search(q, top_k) returns is the top_k highest-scoring
\* documents among all scored documents that pass the gates.
C7_TopKAmongAllPassing ==
    phase = "returned" /\ ~trace.raised
        => ReturnedPairs = Prefix(PassingDocs(trace.sorted_docs), call.top_k)

\* C7: the list search(q, top_k) returns is the first top_k documents that pass the
\* gates among the 3 * top_k highest-scoring documents.
C7_TopKAmongCandidates ==
    phase = "returned" /\ ~trace.raised
        => ReturnedPairs = Prefix(PassingDocs(Prefix(trace.sorted_docs, 3 * call.top_k)),
                                  call.top_k)

\* a query whose three highest-scoring documents are all of excluded domains, asked
\* for one result: a fourth document passes the gates and nothing is returned
C7_Witness ==
    /\ phase = "returned"
    /\ call.top_k = 1
    /\ Len(trace.sorted_docs) > 3
    /\ PassingDocs(trace.sorted_docs) # <<>>
    /\ results = <<>>

\* the minimum relevance threshold of the engine that answered
ThresholdOfCall ==
    IF phase = "returned_plain" THEN plain_relevance_threshold ELSE min_relevance_threshold

\* C8: search returns at most top_k results, ordered by non-increasing score, each
\* with a score strictly above the engine's minimum relevance threshold.
C8_AtMostTopKRankedAboveThreshold ==
    HasReturned
        => /\ Len(results) <= call.top_k
           /\ \A i \in 1..(Len(results) - 1) : results[i].score >= results[i + 1].score
           /\ \A i \in 1..Len(results) : results[i].score > ThresholdOfCall

\* top_k documents were returned with decreasing scores while more were scored
C8_Witness ==
    /\ HasReturned
    /\ call.top_k = MaxTopK
    /\ Len(results) = call.top_k
    /\ Len(trace.sorted_docs) > call.top_k
    /\ results[1].score > results[2].score

\* a step of a loaded indexer, which is a search, leaves the index as it is
IndexKeptBySearch ==
    phase \in {"ready", "ready_plain"}
        => /\ document_map' = document_map
           /\ inverted_index' = inverted_index
           /\ document_lengths' = document_lengths
           /\ average_doc_length' = average_doc_length

\* C17: search is read-only on the loaded index: for every query, also one whose
\* terms are not in the index, document_map, inverted_index (its keys and every
\* posting list), document_lengths and average_doc_length are after the call what
\* they were before it.
C17_SearchIsReadOnly == [][IndexKeptBySearch]_vars

\* a query with a token and a main term that the index does not hold was scored
C17_Witness ==
    /\ HasReturned
    /\ trace.touched
    /\ \E t \in Range(FilterTokens(tokenize(expand_query(call.query, call.env.nltk),
                                            call.env.nltk))) : t \notin DOMAIN inverted_index
    /\ results # <<>>

\* what the vector search of the call returned: the pairs <<doc_id, similarity>>
VectorResultsOfCall == BertSearch(bert_embeddings, call.env, call.top_k * 3).results

\* the similarity the vector search reported for a document: that of its last
\* pair, 0 when it is not among the neighbours
VectorSimilarity(doc_id) ==
    IF \E i \in 1..Len(VectorResultsOfCall) : VectorResultsOfCall[i][1] = doc_id
    THEN VectorResultsOfCall[SetMax({i \in 1..Len(VectorResultsOfCall) :
                                        VectorResultsOfCall[i][1] = doc_id})][2]
    ELSE 0

\* the BM25 score of a document divided by the maximum of the batch, the raw
\* score when the maximum is 0, and 0 when BM25 did not score the document
BM25Share(doc_id) ==
    IF \E i \in 1..Len(trace.bm25_scores) : trace.bm25_scores[i][1] = doc_id
    THEN LET raw  == trace.bm25_scores[CHOOSE i \in 1..Len(trace.bm25_scores) :
                                           trace.bm25_scores[i][1] = doc_id][2]
             most == SetMax({trace.bm25_scores[i][2] : i \in 1..Len(trace.bm25_scores)})
         IN  IF most > 0 THEN MulDiv(raw, SCALE, most) ELSE raw
    ELSE 0

MaxPasses   == 2
MaxLines    == 4
MaxPostings == 3

LineLengths == {0, 30, 60, 201}
Line(n) == [i \in 1..n |-> "x"]

RECURSIVE ContentsOfLines(_)
\* the texts of n lines, each of a length of LineLengths
ContentsOfLines(n) ==
    IF n = 1 THEN {Line(l) : l \in LineLengths}
    ELSE {head \o <<NL>> \o Line(l) : head \in ContentsOfLines(n - 1), l \in LineLengths}

\* the contents of a crawled document
ContentFamily == UNION {ContentsOfLines(n) : n \in 1..MaxLines}

\* the content_snippet a build stores: content[:200] + "..." if content else ""
BuildSnippet(content) == IF content = <<>> THEN <<>> ELSE Prefix(content, 200) \o DOTS

SnippetFamily == {BuildSnippet(content) : content \in ContentFamily}

\* The source indexes: the corpus above where the content of d1 is any content of the
\* family and the term "code" occurs in 1..MaxPostings documents.
SourceIndexWith(snippet, n) ==
    [SourceIndex EXCEPT
        !.document_map["d1"]["content_snippet"] = snippet,
        !.inverted_index[w_code] = [i \in 1..n |-> <<DocOrder[((i + 2) % Len(DocOrder)) + 1], 1>>]]

\* the content of the indexer: what is written to the index directory
IndexOf(self) ==
    [document_map       |-> self.document_map,
     inverted_index     |-> self.inverted_index,
     document_lengths   |-> self.document_lengths,
     average_doc_length |-> self.average_doc_length]

InitOptimize ==
    /\ \E snippet \in SnippetFamily, n \in 1..MaxPostings :
          LET ix == SourceIndexWith(snippet, n)
          IN  /\ document_map = ix.document_map
              /\ inverted_index = ix.inverted_index
              /\ document_lengths = ix.document_lengths
              /\ average_doc_length = ix.average_doc_length
    /\ use_hybrid_search = FALSE
    /\ bert_embeddings = None
    /\ phase = "source"
    /\ call = NoCall
    /\ results = <<>>
    /\ trace = NoTrace
    /\ index_loaded = FALSE
    /\ pc = <<>>
    /\ loads = <<>>
    /\ snapshot = None
    /\ load_args = None
    /\ NLTK_AVAILABLE = TRUE
    /\ NoCrawler

PassesMade == IF snapshot = None THEN 0 ELSE snapshot.passes

\* what an optimisation leaves in the state: the index it wrote, and the index it read
Optimized(op, next_phase, ix) ==
    /\ PassesMade < MaxPasses
    /\ document_map' = ix.document_map
    /\ inverted_index' = ix.inverted_index
    /\ document_lengths' = ix.document_lengths
    /\ average_doc_length' = ix.average_doc_length
    /\ snapshot' = [phase |-> phase, index |-> IndexOf(Self), passes |-> PassesMade + 1]
    /\ call' = [NoCall EXCEPT !.op = op]
    /\ phase' = next_phase
    /\ UNCHANGED <<use_hybrid_search, bert_embeddings, results, trace, index_loaded, pc, loads,
                   load_args, NLTK_AVAILABLE, crawler_vars>>

\* optimize_index(): snippet truncation, then optimize_from_existing
OptimizeIndex == Optimized("optimize_index", "optimized", optimize_index(IndexOf(Self)))

\* indexer.optimize_from_existing(source_index_dir) alone
OptimizeFromExisting == Optimized("optimize_from_existing", "pruned", _optimize_index(IndexOf(Self)))

NextOptimize == OptimizeIndex \/ OptimizeFromExisting

SpecOptimize == InitOptimize /\ [][NextOptimize]_vars

\* C9: after _optimize_index no key of inverted_index has a posting list of length
\* < 2, and every term that had a posting list of length >= 2 before is still
\* present with exactly the same postings.
C9_LowFrequencyTermsPruned ==
    snapshot # None
        => /\ \A term \in DOMAIN inverted_index : Len(inverted_index[term]) >= 2
           /\ \A term \in DOMAIN snapshot.index.inverted_index :
                 Len(snapshot.index.inverted_index[term]) >= 2
                     => /\ term \in DOMAIN inverted_index
                        /\ inverted_index[term] = snapshot.index.inverted_index[term]

\* a source index with a term of one document and terms of two was optimised
C9_Witness ==
    /\ snapshot # None
    /\ snapshot.phase = "source"
    /\ w_code \in DOMAIN snapshot.index.inverted_index
    /\ Len(snapshot.index.inverted_index[w_code]) = 1
    /\ w_code \notin DOMAIN inverted_index
    /\ w_ai \in DOMAIN inverted_index
    /\ Len(inverted_index[w_ai]) = 2

\* C10: the optimisation step (snippet truncation, then _optimize_index) applied to
\* an index that is the output of that step leaves inverted_index, document_map,
\* document_lengths and average_doc_length unchanged; and the step run again on the
\* source index, whose snippets the first run rewrote, produces the same output.
C10_OptimisationIdempotent ==
    /\ snapshot # None /\ snapshot.phase = "optimized" /\ call.op = "optimize_index"
           => IndexOf(Self) = snapshot.index
    /\ snapshot # None /\ snapshot.phase = "source" /\ call.op = "optimize_index"
           => optimize_index([snapshot.index EXCEPT !.document_map = TruncateSnippets(@)])
                  = IndexOf(Self)

\* the step was applied again to its output, for a source snippet of more than 100
\* characters and three newlines
C10_Witness ==
    /\ snapshot # None
    /\ snapshot.phase = "optimized"
    /\ call.op = "optimize_index"
    /\ Len(document_map["d1"]["content_snippet"]) = 100
    /\ \E i \in 1..100 : document_map["d1"]["content_snippet"][i] = NL

(***************************************************************************)
(* Specification SpecLoad: app.py, request handlers that call the lazy     *)
(* load_index() from several threads of the server.                        *)
(***************************************************************************)
NumThreads == 2
Threads == 1..NumThreads

\* the files of the optimised index directory, in the order load_optimized_index
\* reads them
IndexFiles == <<"document_map", "inverted_index", "document_lengths", "average_doc_length">>

\* where a thread is inside load_optimized_index
LoadingPcs == Range(IndexFiles) \cup {"hybrid", "set_flag"}

InitLoad ==
    /\ NewIndexer
    /\ phase = "serving"
    /\ call = NoCall
    /\ results = <<>>
    /\ trace = NoTrace
    /\ index_loaded = FALSE
    /\ pc = [t \in Threads |-> "idle"]
    /\ loads = <<>>
    /\ snapshot = None
    /\ \E opt \in LoadOptions, broken \in Range(IndexFiles) \cup {"none"} :
          load_args = [use_hybrid |-> opt.use_hybrid, import |-> opt.import,
                       files |-> opt.files, broken |-> broken]
    /\ NLTK_AVAILABLE = TRUE
    /\ NoCrawler

\* load_index(), lines 86-88: the flag is read; when it is not set the thread
\* enters the try block and calls indexer.load_optimized_index
CheckFlag(t) ==
    /\ pc[t] = "idle"
    /\ IF index_loaded
       THEN /\ pc' = [pc EXCEPT ![t] = "returned_true"]
            /\ UNCHANGED loads
       ELSE /\ pc' = [pc EXCEPT ![t] = IndexFiles[1]]
            /\ loads' = Append(loads, t)
    /\ UNCHANGED <<indexer_vars, phase, call, results, trace, index_loaded, snapshot, load_args,
                   NLTK_AVAILABLE, crawler_vars>>

\* load_optimized_index, lines 158-172: one of the four reads.  A file that cannot
\* be read raises, and load_index() returns False from its except block.
ReadFile(t, i) ==
    /\ pc[t] = IndexFiles[i]
    /\ IF load_args.broken = IndexFiles[i]
       THEN /\ pc' = [pc EXCEPT ![t] = "returned_false"]
            /\ UNCHANGED <<document_map, inverted_index, document_lengths, average_doc_length>>
       ELSE /\ pc' = [pc EXCEPT ![t] = IF i < Len(IndexFiles) THEN IndexFiles[i + 1] ELSE "hybrid"]
            /\ document_map' = IF i = 1 THEN OptimizedIndex.document_map ELSE document_map
            /\ inverted_index' = IF i = 2 THEN OptimizedIndex.inverted_index ELSE inverted_index
            /\ document_lengths' = IF i = 3 THEN OptimizedIndex.document_lengths
                                   ELSE document_lengths
            /\ average_doc_length' = IF i = 4 THEN OptimizedIndex.average_doc_length
                                     ELSE average_doc_length
    /\ UNCHANGED <<use_hybrid_search, bert_embeddings, phase, call, results, trace, index_loaded,
                   loads, snapshot, load_args, NLTK_AVAILABLE, crawler_vars>>

\* load_optimized_index, lines 176-191: the hybrid flag and the vector index
InitHybrid(t) ==
    /\ pc[t] = "hybrid"
    /\ LET h == LoadHybrid(bert_embeddings, load_args.use_hybrid, load_args.import, load_args.files)
       IN  /\ use_hybrid_search' = h.use_hybrid_search
           /\ bert_embeddings' = h.bert_embeddings
    /\ pc' = [pc EXCEPT ![t] = "set_flag"]
    /\ UNCHANGED <<document_map, inverted_index, document_lengths, average_doc_length, phase,
                   call, results, trace, index_loaded, loads, snapshot, load_args, NLTK_AVAILABLE, crawler_vars>>

\* load_index(), lines 96-97: index_loaded = True; return True
SetFlag(t) ==
    /\ pc[t] = "set_flag"
    /\ index_loaded' = TRUE
    /\ pc' = [pc EXCEPT ![t] = "returned_true"]
    /\ UNCHANGED <<indexer_vars, phase, call, results, trace, loads, snapshot, load_args,
                   NLTK_AVAILABLE, crawler_vars>>

NextLoad ==
    \E t \in Threads :
        \/ CheckFlag(t)
        \/ \E i \in 1..Len(IndexFiles) : ReadFile(t, i)
        \/ InitHybrid(t)
        \/ SetFlag(t)

SpecLoad == InitLoad /\ [][NextLoad]_vars

\* C3: when several handlers call load_index() before the index is loaded,
\* load_optimized_index is executed once: no caller starts a load while another
\* caller's load is in progress, and at most one load runs to completion.
C3_LoadExecutedOnce ==
    /\ Cardinality({t \in Threads : pc[t] \in LoadingPcs}) <= 1
    /\ Cardinality({t \in Range(loads) : pc[t] = "returned_true"}) <= 1

(***************************************************************************)
(* search_engine/indexer/indexer.py: the builds                            *)
(***************************************************************************)
\* INDEXER_CONFIG["title_boost"], INDEXER_CONFIG["meta_boost"]
title_boost == 5
meta_boost == 3

EndsWith(s, suffix) ==
    Len(s) >= Len(suffix) /\ SubSeq(s, Len(s) - Len(suffix) + 1, Len(s)) = suffix

RECURSIVE Replace(_, _, _)
\* s.replace(old, new): every occurrence, from the left
Replace(s, old, new) ==
    IF s = <<>> THEN <<>>
    ELSE IF StartsWith(s, old) THEN new \o Replace(Drop(s, Len(old)), old, new)
    ELSE <<Head(s)>> \o Replace(Tail(s), old, new)

dot_json == <<".","j","s","o","n">>

\* the names the two builds leave out of json_files
visited_urls_json ==
    <<"v","i","s","i","t","e","d","_","u","r","l","s">> \o dot_json
classification_summary_json ==
    <<"c","l","a","s","s","i","f","i","c","a","t","i","o","n","_","s","u","m","m","a","r","y">>
        \o dot_json

\* json_files: the names of os.listdir that end with '.json' and are not excluded
JsonFiles(listing, excluded) ==
    LET keep(file) == EndsWith(file.name, dot_json) /\ file.name \notin excluded
    IN  SelectSeq(listing, keep)

\* doc_id = json_file.replace('.json', '')
DocIdOf(json_file) == Replace(json_file, dot_json, <<>>)

\* tokenize(value) for the value of a field: `if not text: return []`, and
\* text.lower() raises for a value that is not a string
TokenizeRaises(value) == value = JsonNumber
TokensOf(value, nltk) == IF value = JsonNull THEN <<>> ELSE tokenize(value, nltk)

RECURSIVE AddWeights(_, _, _)
\* for token in tokens: weighted_tokens[token] += boost
AddWeights(tokens, boost, weighted) ==
    IF tokens = <<>> THEN weighted
    ELSE AddWeights(Tail(tokens), boost, DictAdd(weighted, Head(tokens), boost))

\* SearchIndexer._process_document: the dict weighted_tokens, in insertion order
_process_document(document, nltk) ==
    AddWeights(FilterTokens(TokensOf(GetText(document, "content"), nltk)), 1,
        AddWeights(FilterTokens(TokensOf(GetText(document, "meta_description"), nltk)), meta_boost,
            AddWeights(FilterTokens(TokensOf(GetText(document, "title"), nltk)), title_boost,
                       <<>>)))

\* whether _process_document raises: one of its three tokenize calls does
ProcessRaises(document) ==
    \E field \in {"title", "meta_description", "content"} :
        TokenizeRaises(GetText(document, field))

\* the metadata a build stores for a document; build_index also keeps the
\* classifier's confidence and method
StoredDocument(document, classified) ==
    LET content == GetText(document, "content")
        stored  == [url             |-> document["url"],
                    title           |-> GetText(document, "title"),
                    description     |-> GetText(document, "meta_description"),
                    content_snippet |-> IF content = JsonNull THEN <<>>
                                        ELSE BuildSnippet(content)]
    IN  IF classified
        THEN [f \in DOMAIN stored \cup {"confidence", "method"} |->
                 IF f = "confidence"
                 THEN (IF "confidence" \in DOMAIN document THEN document["confidence"] ELSE 0)
                 ELSE IF f = "method"
                 THEN (IF "method" \in DOMAIN document THEN document["method"] ELSE "")
                 ELSE stored[f]]
        ELSE stored

\* d[k] = v on a dict kept as a function
Put(d, k, v) == [x \in DOMAIN d \cup {k} |-> IF x = k THEN v ELSE d[x]]

RECURSIVE SumWeights(_)
\* sum(weighted_tokens.values())
SumWeights(weighted) ==
    IF weighted = <<>> THEN 0 ELSE Head(weighted)[2] + SumWeights(Tail(weighted))

RECURSIVE AppendPostings(_, _, _)
\* for term, weight in weighted_tokens.items(): inverted_index[term].append((doc_id, weight))
AppendPostings(inv, doc_id, weighted) ==
    IF weighted = <<>> THEN inv
    ELSE AppendPostings(
             Put(inv, Head(weighted)[1],
                 (IF Head(weighted)[1] \in DOMAIN inv THEN inv[Head(weighted)[1]] ELSE <<>>)
                     \o << <<doc_id, Head(weighted)[2]>> >>),
             doc_id, Tail(weighted))

\* document.get("is_personal_blog", False)
IsPersonalBlog(document) ==
    "is_personal_blog" \in DOMAIN document /\ document["is_personal_blog"]

\* A loop body that updates inverted_index only: the document is neither
\* recorded in document_map nor given a length.
IndexDocument_postings_only(acc, doc_id, stored, weighted) ==
    [acc EXCEPT !.inverted_index = AppendPostings(@, doc_id, weighted),
                !.total_docs = @ + 1]

\* The statements of the try block after the metadata was formed: document_map,
\* document_lengths, inverted_index and the counter.  acc is the state of the
\* build: the three dicts of the indexer and total_docs.
IndexDocument(acc, doc_id, stored, weighted) ==
    [document_map     |-> Put(acc.document_map, doc_id, stored),
     document_lengths |-> Put(acc.document_lengths, doc_id, SumWeights(weighted)),
     inverted_index   |-> AppendPostings(acc.inverted_index, doc_id, weighted),
     total_docs       |-> acc.total_docs + 1]

\* A loop body that records the metadata before the url is read, so that a
\* document without url is left in document_map.
ProcessFile_store_first(acc, file, classified, nltk) ==
    IF "unreadable" \in DOMAIN file.body \/ "array" \in DOMAIN file.body THEN acc
    ELSE IF classified /\ ~IsPersonalBlog(file.body) THEN acc
    ELSE IF ProcessRaises(file.body) THEN acc
    ELSE IF "url" \notin DOMAIN file.body
    THEN [acc EXCEPT !.document_map =
              Put(@, DocIdOf(file.name), [title |-> GetText(file.body, "title")])]
    ELSE IndexDocument(acc, DocIdOf(file.name), StoredDocument(file.body, classified),
                       _process_document(file.body, nltk))

\* One iteration of the loop over json_files: the try block and its except.
\* file.body is what the file holds: [unreadable |-> TRUE] when json.load raises,
\* [array |-> TRUE] for a JSON array (document.get raises), else the dict.
\* classified is TRUE in build_index, which skips a document that is not a
\* personal blog.  An exception leaves the state as it was when it was raised.
ProcessFile(acc, file, classified, nltk) ==
    IF "unreadable" \in DOMAIN file.body \/ "array" \in DOMAIN file.body THEN acc
    ELSE IF classified /\ ~IsPersonalBlog(file.body) THEN acc
    ELSE IF ProcessRaises(file.body) THEN acc
    ELSE IF "url" \notin DOMAIN file.body THEN acc
    ELSE IndexDocument(acc, DocIdOf(file.name), StoredDocument(file.body, classified),
                       _process_document(file.body, nltk))

RECURSIVE BuildLoop(_, _, _, _)
\* for chunk in chunks: for json_file in chunk_files: the files in listing order
BuildLoop(acc, json_files, classified, nltk) ==
    IF json_files = <<>> THEN acc
    ELSE BuildLoop(ProcessFile(acc, Head(json_files), classified, nltk),
                   Tail(json_files), classified, nltk)

RECURSIVE SumValues(_)
\* sum(d.values())
SumValues(d) ==
    IF DOMAIN d = {} THEN 0
    ELSE LET k == CHOOSE x \in DOMAIN d : TRUE
         IN  d[k] + SumValues([x \in DOMAIN d \ {k} |-> d[x]])

\* the index after the loop: average_doc_length is set when total_docs > 0
BuiltIndex(ix, acc) ==
    [document_map       |-> acc.document_map,
     inverted_index     |-> acc.inverted_index,
     document_lengths   |-> acc.document_lengths,
     average_doc_length |-> IF acc.total_docs > 0
                            THEN (SumValues(acc.document_lengths) * SCALE) \div acc.total_docs
                            ELSE ix.average_doc_length]

\* the state of a build when its loop starts
BuildStart(ix) ==
    [document_map     |-> ix.document_map,
     document_lengths |-> ix.document_lengths,
     inverted_index   |-> ix.inverted_index,
     total_docs       |-> 0]

\* SearchIndexer.build_index_from_crawled(documents_dir) on the indexer ix;
\* listing is os.listdir(documents_dir) with what each file holds
build_index_from_crawled(ix, listing, nltk) ==
    BuiltIndex(ix, BuildLoop(BuildStart(ix), JsonFiles(listing, {visited_urls_json}),
                             FALSE, nltk))

\* SearchIndexer.build_index(documents_dir)
build_index(ix, listing, nltk) ==
    BuiltIndex(ix, BuildLoop(BuildStart(ix), JsonFiles(listing, {classification_summary_json}),
                             TRUE, nltk))

(***************************************************************************)
(* Specification SpecBuild: a new indexer builds its index from a          *)
(* directory of documents; the index it saved is then optimised.           *)
(***************************************************************************)
MaxFiles == 3

\* What a document file can hold.
BlogA == [url |-> UrlOf(h_blog, "1"), title |-> Text2(w_python, w_blog),
          meta_description |-> w_blog, content |-> w_python, is_personal_blog |-> TRUE,
          confidence |-> 9, method |-> "domain"]
BlogB == [url |-> UrlOf(h_blog, "2"), title |-> w_web,
          content |-> Text3(w_about, w_web, w_code), is_personal_blog |-> TRUE]
NullTitle == [url |-> UrlOf(h_blog, "3"), title |-> JsonNull, meta_description |-> JsonNull,
              content |-> Text2(w_python, w_blogs), is_personal_blog |-> TRUE]
NoUrl == [title |-> w_python, content |-> Text2(w_python, w_code), is_personal_blog |-> TRUE]
Malformed == [url |-> UrlOf(h_blog, "4"), title |-> JsonNumber, content |-> w_python,
              is_personal_blog |-> TRUE]
Unclassified == [url |-> UrlOf(h_blog, "5"), title |-> w_web, content |-> w_python]
Unreadable == [unreadable |-> TRUE]
JsonArray == [array |-> TRUE]

a_json == <<"a">> \o dot_json
b_json == <<"b">> \o dot_json
a_json_json == <<"a">> \o dot_json \o dot_json

\* The files a documents directory can hold.
DirectoryFiles ==
    [name : {a_json}, body : {BlogA, NoUrl, Unreadable}]
    \cup [name : {b_json}, body : {BlogB, NullTitle, Malformed, Unclassified}]
    \cup [name : {a_json_json}, body : {NullTitle, Unreadable}]
    \cup { [name |-> <<"c",".","t","x","t">>, body |-> BlogA],
           [name |-> visited_urls_json, body |-> JsonArray],
           [name |-> classification_summary_json, body |-> [total |-> 2]] }

RECURSIVE Listings(_)
\* os.listdir: up to n files of different names, in any order
Listings(n) ==
    IF n = 0 THEN {<<>>}
    ELSE LET shorter == Listings(n - 1)
         IN  shorter \cup
             { Append(l, f) : l \in {x \in shorter : Len(x) = n - 1},
                              f \in DirectoryFiles }

\* the directories: no two files of a directory have the same name
Directories ==
    {l \in Listings(MaxFiles) : \A i, j \in 1..Len(l) : l[i].name = l[j].name => i = j}

InitBuild ==
    /\ NewIndexer
    /\ phase = "new"
    /\ call = NoCall
    /\ results = <<>>
    /\ trace = NoTrace
    /\ index_loaded = FALSE
    /\ pc = <<>>
    /\ loads = <<>>
    /\ snapshot = None
    /\ load_args = None
    /\ NLTK_AVAILABLE = TRUE
    /\ NoCrawler

\* what a build leaves in the state: the index, and the directory it read
Built(op, listing, ix) ==
    /\ phase = "new"
    /\ document_map' = ix.document_map
    /\ inverted_index' = ix.inverted_index
    /\ document_lengths' = ix.document_lengths
    /\ average_doc_length' = ix.average_doc_length
    /\ call' = [op |-> op, listing |-> listing]
    /\ load_args' = [op |-> op, listing |-> listing]
    /\ phase' = "built"
    /\ UNCHANGED <<use_hybrid_search, bert_embeddings, results, trace, index_loaded, pc, loads,
                   snapshot, NLTK_AVAILABLE, crawler_vars>>

\* indexer.build_index_from_crawled(documents_dir)
BuildIndexFromCrawled(listing) ==
    Built("build_index_from_crawled", listing,
          build_index_from_crawled(IndexOf(Self), listing, NLTK_AVAILABLE))

\* indexer.build_index(documents_dir)
BuildIndex(listing) ==
    Built("build_index", listing, build_index(IndexOf(Self), listing, NLTK_AVAILABLE))

\* optimize_from_existing on the index the build saved
OptimizeBuilt ==
    /\ phase = "built"
    /\ Optimized("optimize_from_existing", "built_optimised", _optimize_index(IndexOf(Self)))

NextBuild ==
    \/ \E listing \in Directories : BuildIndexFromCrawled(listing)
    \/ \E listing \in Directories : BuildIndex(listing)
    \/ OptimizeBuilt

SpecBuild == InitBuild /\ [][NextBuild]_vars

(***************************************************************************)
(* Properties of the builds.                                               *)
(***************************************************************************)
\* the doc ids named by the postings of an inverted index
PostedDocIds(inv) == UNION { {inv[term][i][1] : i \in 1..Len(inv[term])} : term \in DOMAIN inv }

\* whether the build op indexes the documents of the classifier
IsClassifiedBuild(op) == op = "build_index"

\* the files of the listing the build op loops over
LoopedFiles(op, listing) ==
    JsonFiles(listing, IF IsClassifiedBuild(op) THEN {classification_summary_json}
                       ELSE {visited_urls_json})

\* whether processing the file fails in the build op: it cannot be parsed, is not
\* a JSON object, has a field that is not text, or has no url
FailsIn(op, file) ==
    \/ "unreadable" \in DOMAIN file.body
    \/ "array" \in DOMAIN file.body
    \/ /\ IsClassifiedBuild(op) => IsPersonalBlog(file.body)
       /\ \/ "url" \notin DOMAIN file.body
          \/ \E field \in {"title", "meta_description", "content"} :
                field \in DOMAIN file.body /\ file.body[field] = JsonNumber

\* the files of the listing that the build op indexes
IndexedFiles(op, listing) ==
    LET indexed(file) == /\ ~FailsIn(op, file)
                         /\ IsClassifiedBuild(op) => IsPersonalBlog(file.body)
    IN  SelectSeq(LoopedFiles(op, listing), indexed)

\* C11: after a build (build_index or build_index_from_crawled), also one in which
\* documents fail, and after the optimisation of the index it saved, every doc_id
\* of a posting is a key of document_map and of document_lengths.
C11_PostingsNameKnownDocuments ==
    phase \in {"built", "built_optimised"}
        => PostedDocIds(inverted_index) \subseteq (DOMAIN document_map \cap DOMAIN document_lengths)

\* a build in which a document failed was optimised, and postings are left
C11_Witness ==
    /\ phase = "built_optimised"
    /\ PostedDocIds(inverted_index) # {}
    /\ \E i \in 1..Len(load_args.listing) : FailsIn(load_args.op, load_args.listing[i])

\* C12: after a build over any set of input files, each term's posting list has
\* at most one posting per doc_id (the file name without '.json').
C12_OnePostingPerDocument ==
    phase = "built"
        => \A term \in DOMAIN inverted_index :
              \A i, j \in 1..Len(inverted_index[term]) :
                  inverted_index[term][i][1] = inverted_index[term][j][1] => i = j

\* C13: immediately after a build that indexed at least one document,
\* average_doc_length is the sum of the values of document_lengths divided by the
\* number of its entries.
C13_AverageIsMeanOfLengths ==
    phase = "built" /\ DOMAIN document_lengths # {}
        => average_doc_length
              = (SumValues(document_lengths) * SCALE) \div Cardinality(DOMAIN document_lengths)

\* the index of a new indexer
EmptyIndex ==
    [document_map |-> <<>>, inverted_index |-> <<>>, document_lengths |-> <<>>,
     average_doc_length |-> 0]

\* C14: a document whose processing fails is skipped and the build goes on: the
\* index is the one the build makes of the directory without the failed files,
\* every other document is indexed, and a failed document is in none of
\* document_map, document_lengths and the postings.
C14_FailedDocumentsSkipped ==
    phase = "built"
        => LET kept(file) == ~FailsIn(call.op, file)
               others     == SelectSeq(call.listing, kept)
               indexed    == {DocIdOf(file.name) : file \in Range(IndexedFiles(call.op, call.listing))}
               failed     == {DocIdOf(file.name) :
                                 file \in {f \in Range(LoopedFiles(call.op, call.listing)) :
                                              FailsIn(call.op, f)}}
           IN  /\ IndexOf(Self) = IF IsClassifiedBuild(call.op)
                                  THEN build_index(EmptyIndex, others, NLTK_AVAILABLE)
                                  ELSE build_index_from_crawled(EmptyIndex, others, NLTK_AVAILABLE)
               /\ DOMAIN document_map = indexed
               /\ DOMAIN document_lengths = indexed
               /\ PostedDocIds(inverted_index) \subseteq indexed
               /\ (failed \ indexed) \cap DOMAIN document_map = {}

\* a build met a file that fails and indexed another document after it
C14_Witness ==
    /\ phase = "built"
    /\ Len(call.listing) >= 2
    /\ FailsIn(call.op, call.listing[1])
    /\ call.listing[1] \in Range(LoopedFiles(call.op, call.listing))
    /\ DocIdOf(call.listing[2].name) \in DOMAIN document_map
    /\ PostedDocIds(inverted_index) = {DocIdOf(call.listing[2].name)}

(***************************************************************************)
(* Specification SpecDegraded: the index directory holds an index with a   *)
(* null title or an average_doc_length of 0; it is loaded and queried.     *)
(***************************************************************************)
\* The index a build leaves when d5.json holds "title": null: tokenize(None) is
\* [], the title None is stored, and d5 has the postings of its content only.
NullTitleIndex ==
    [SourceIndex EXCEPT !.document_map["d5"]["title"] = JsonNull,
                        !.inverted_index[w_python] = << <<"d6", 6>> >>,
                        !.document_lengths["d5"] = 1,
                        !.average_doc_length = (40 * SCALE) \div 6]

\* The index directory whose average_doc_length.txt holds 0.0, the value a build
\* that indexed no document writes, next to the other three files of the corpus.
ZeroAverageIndex == [SourceIndex EXCEPT !.average_doc_length = 0]

DegradedIndexes == {NullTitleIndex, ZeroAverageIndex}

\* load_optimized_index(use_hybrid_search=False) / load_index(): the four files
\* of the directory are read into the indexer
LoadIndexFiles(ix, next_phase) ==
    /\ phase = "new"
    /\ document_map' = ix.document_map
    /\ inverted_index' = ix.inverted_index
    /\ document_lengths' = ix.document_lengths
    /\ average_doc_length' = ix.average_doc_length
    /\ use_hybrid_search' = FALSE
    /\ load_args' = [use_hybrid |-> FALSE, import |-> "ok", files |-> "absent"]
    /\ phase' = next_phase
    /\ UNCHANGED <<bert_embeddings, call, results, trace, index_loaded, pc, loads, snapshot,
                   NLTK_AVAILABLE, crawler_vars>>

\* OptimizedSearchIndexer.load_optimized_index() of the optimised directory
LoadDegradedOptimized(ix) == LoadIndexFiles(optimize_index(ix), "ready")

\* SearchIndexer.load_index() of the source directory
LoadDegradedPlain(ix) == LoadIndexFiles(ix, "ready_plain")

NextDegraded ==
    \/ \E ix \in DegradedIndexes : LoadDegradedOptimized(ix)
    \/ \E ix \in DegradedIndexes : LoadDegradedPlain(ix)
    \/ \E query \in Queries, top_k \in 0..MaxTopK, env \in Environments : Search(query, top_k, env)
    \/ \E query \in Queries, top_k \in 0..MaxTopK, env \in Environments : PlainSearch(query, top_k, env)
    \/ NextQuery

SpecDegraded == InitSearch /\ [][NextDegraded]_vars

\* the documents with a stored title, description or snippet that is null
NullDocuments ==
    {d \in DOMAIN document_map :
        \E field \in {"title", "description", "content_snippet"} :
            GetText(document_map[d], field) = JsonNull}

\* the filtered tokens of the query of the call
TokensOfCall ==
    FilterTokens(tokenize(expand_query(call.query, call.env.nltk), call.env.nltk))

\* the documents named by the postings of the tokens of the call
MatchingDocuments ==
    UNION { {inverted_index[t][i][1] : i \in 1..Len(inverted_index[t])} :
               t \in Range(TokensOfCall) \cap DOMAIN inverted_index }

\* C15: when scoring or boosting one document raises during a query (a document
\* whose stored title or description is null), search does not abort: it returns
\* the results of the other matching documents and leaves that document out.
C15_ScoringErrorSkipsDocument ==
    HasReturned /\ MatchingDocuments \cap NullDocuments # {}
        => /\ ~trace.raised
           /\ \A i \in 1..Len(results) : results[i].doc_id \notin NullDocuments

\* C16: when the loaded average_doc_length is 0 and a query term has postings,
\* search does not raise a division-by-zero error and the query completes.
C16_ZeroAverageIsGuarded ==
    HasReturned /\ average_doc_length = 0 /\ MatchingDocuments # {}
        => ~trace.raised

(***************************************************************************)
(* Specification SpecVector: a BertEmbeddings object is used on its own,   *)
(* with vector index files that are readable, absent or unreadable.        *)
(***************************************************************************)
VectorFileStates == {"ok", "absent", "corrupt", "corrupt_ids"}

\* BertEmbeddings.__init__; load_args.files is the state of faiss_index.bin and
\* doc_ids.json for the whole behaviour
InitVector ==
    /\ document_map = <<>>
    /\ inverted_index = <<>>
    /\ document_lengths = <<>>
    /\ average_doc_length = 0
    /\ use_hybrid_search = FALSE
    /\ bert_embeddings = NewBertEmbeddings
    /\ phase = "vector_ready"
    /\ call = NoCall
    /\ results = <<>>
    /\ trace = [raised |-> FALSE, returned |-> FALSE]
    /\ index_loaded = FALSE
    /\ pc = <<>>
    /\ loads = <<>>
    /\ snapshot = None
    /\ \E files \in VectorFileStates :
          load_args = [use_hybrid |-> TRUE, import |-> "ok", files |-> files]
    /\ NLTK_AVAILABLE = TRUE
    /\ NoCrawler

\* the environments of a vector search
VectorEnvironments ==
    [nltk : {NLTK_AVAILABLE}, files : {load_args.files}, model : {"ok", "raise"},
     embedding : 0..MaxEmbedding, order : {"asc"}]

\* bert_embeddings.load_index(): trace.returned is the flag it returns
VectorLoadIndex ==
    /\ phase = "vector_ready"
    /\ bert_embeddings' = BertLoadIndex(bert_embeddings, load_args.files).be
    /\ trace' = [raised |-> FALSE,
                 returned |-> BertLoadIndex(bert_embeddings, load_args.files).ok]
    /\ results' = <<>>
    /\ call' = [NoCall EXCEPT !.op = "load_index"]
    /\ phase' = "vector_returned"
    /\ UNCHANGED <<document_map, inverted_index, document_lengths, average_doc_length,
                   use_hybrid_search, index_loaded, pc, loads, snapshot, load_args,
                   NLTK_AVAILABLE, crawler_vars>>

\* bert_embeddings.search(query, top_k): results is the list it returns, when it
\* does not raise
VectorSearch(env, top_k) ==
    /\ phase = "vector_ready"
    /\ bert_embeddings' = BertSearch(bert_embeddings, env, top_k).be
    /\ trace' = [raised |-> BertSearch(bert_embeddings, env, top_k).raised, returned |-> FALSE]
    /\ results' = BertSearch(bert_embeddings, env, top_k).results
    /\ call' = [op |-> "bert_search", query |-> <<>>, top_k |-> top_k, env |-> env]
    /\ phase' = "vector_returned"
    /\ UNCHANGED <<document_map, inverted_index, document_lengths, average_doc_length,
                   use_hybrid_search, index_loaded, pc, loads, snapshot, load_args,
                   NLTK_AVAILABLE, crawler_vars>>

\* the caller takes what the call returned
VectorNext ==
    /\ phase = "vector_returned"
    /\ phase' = "vector_ready"
    /\ call' = NoCall
    /\ results' = <<>>
    /\ trace' = [raised |-> FALSE, returned |-> FALSE]
    /\ UNCHANGED <<document_map, inverted_index, document_lengths, average_doc_length,
                   use_hybrid_search, bert_embeddings, index_loaded, pc, loads, snapshot,
                   load_args, NLTK_AVAILABLE, crawler_vars>>

\* top_k goes up to one neighbour more than the index of the model stores vectors
NextVector ==
    \/ VectorLoadIndex
    \/ \E env \in VectorEnvironments, top_k \in 0..(3 * MaxTopK + 1) : VectorSearch(env, top_k)
    \/ VectorNext

SpecVector == InitVector /\ [][NextVector]_vars

\* the list of a search whose result loop kept no neighbour
NoNeighbours == <<>>

\* C19: when the vector index files are absent or unreadable, load_index and
\* search of BertEmbeddings do not raise, and what they return tells the caller
\* that the index is unavailable: load_index returns False, and search returns
\* something else than the list of a search that found no neighbours.
C19_UnavailableIsExplicit ==
    phase = "vector_returned" /\ load_args.files # "ok"
        => /\ ~trace.raised
           /\ call.op = "load_index" => ~trace.returned
           /\ call.op = "bert_search" => results # NoNeighbours

(***************************************************************************)
(* Specification SpecExpand: expand_query is applied to queries of a few   *)
(* whitespace-separated words, with and without NLTK.                      *)
(***************************************************************************)
MaxWords == 3

\* the words a query is made of, as typed
QueryWords ==
    { w_python, <<"P","y","t","h","o","n","!">>, w_blogs, w_blog, w_a,
      <<"w","e","b","-","a","i">> }

RECURSIVE WordLists(_)
\* the lists of n words
WordLists(n) ==
    IF n = 0 THEN { <<>> }
    ELSE { Append(ws, w) : ws \in WordLists(n - 1), w \in QueryWords }

\* the queries: at most MaxWords words, separated by one space
ExpandQueries == { JoinSpace(ws) : ws \in UNION { WordLists(n) : n \in 0..MaxWords } }

\* the module text_processing after its import: NLTK_AVAILABLE is set once
InitExpand ==
    /\ document_map = <<>>
    /\ inverted_index = <<>>
    /\ document_lengths = <<>>
    /\ average_doc_length = 0
    /\ use_hybrid_search = FALSE
    /\ bert_embeddings = NewBertEmbeddings
    /\ phase = "expand_ready"
    /\ call = NoCall
    /\ results = <<>>
    /\ trace = NoTrace
    /\ index_loaded = FALSE
    /\ pc = <<>>
    /\ loads = <<>>
    /\ snapshot = None
    /\ load_args = None
    /\ NLTK_AVAILABLE \in BOOLEAN
    /\ NoCrawler

\* expand_query(query): results is the term sequence of the string it returns
ExpandQuery(query) ==
    /\ phase = "expand_ready"
    /\ results' = Split(expand_query(query, NLTK_AVAILABLE))
    /\ call' = [NoCall EXCEPT !.op = "expand_query", !.query = query]
    /\ phase' = "expand_returned"
    /\ UNCHANGED <<document_map, inverted_index, document_lengths, average_doc_length,
                   use_hybrid_search, bert_embeddings, trace, index_loaded, pc, loads,
                   snapshot, load_args, NLTK_AVAILABLE, crawler_vars>>

\* the caller takes the expanded query
ExpandNext ==
    /\ phase = "expand_returned"
    /\ phase' = "expand_ready"
    /\ call' = NoCall
    /\ results' = <<>>
    /\ UNCHANGED <<document_map, inverted_index, document_lengths, average_doc_length,
                   use_hybrid_search, bert_embeddings, trace, index_loaded, pc, loads,
                   snapshot, load_args, NLTK_AVAILABLE, crawler_vars>>

NextExpand ==
    \/ \E query \in ExpandQueries : ExpandQuery(query)
    \/ ExpandNext

SpecExpand == InitExpand /\ [][NextExpand]_vars

\* no element of the sequence occurs twice
NoDuplicate(terms) ==
    \A i, j \in 1..Len(terms) : terms[i] = terms[j] => i = j

RECURSIVE FirstOccurrences(_, _)
\* the elements of terms that are not in seen, each at its first occurrence
FirstOccurrences(terms, seen) ==
    IF terms = <<>> THEN <<>>
    ELSE IF InSeq(Head(terms), seen) THEN FirstOccurrences(Tail(terms), seen)
    ELSE <<Head(terms)>> \o FirstOccurrences(Tail(terms), Append(seen, Head(terms)))

\* the terms a query brings, in the order the expansion meets them: the tokens
\* of its words, the stems of these tokens, its words longer than one character
ExpansionCandidates(query, nltk) ==
    LET query_phrases == Split(Strip(Lower(query)))
        tokens        == Concat([i \in 1..Len(query_phrases) |-> tokenize(query_phrases[i], nltk)])
        stems         == IF nltk THEN [i \in 1..Len(tokens) |-> stem(tokens[i])] ELSE <<>>
        long(p)       == Len(p) > 1
    IN  tokens \o stems \o SelectSeq(query_phrases, long)

\* the distinct terms of an expanded query stand in the order of their first
\* occurrence among the candidates
ExpansionOrderIsStable ==
    phase = "expand_returned"
        => FirstOccurrences(results, <<>>)
               = FirstOccurrences(ExpansionCandidates(call.query, NLTK_AVAILABLE), <<>>)

\* C20: for every query, the term sequence expand_query produces holds no term
\* twice and lists the terms in the order of their first occurrence: the query's
\* tokens, then the stems that are new, then the whitespace-delimited words of
\* the query that are not yet present.
C20_ExpansionHasNoDuplicates ==
    phase = "expand_returned"
        => /\ NoDuplicate(results)
           /\ results = FirstOccurrences(ExpansionCandidates(call.query, NLTK_AVAILABLE), <<>>)

(***************************************************************************)
(* Specification SpecMainTerms: identify_main_terms is applied to queries  *)
(* of a few words, under several stopword sets, with and without NLTK.     *)
(***************************************************************************)
\* the words a query is made of: content words, stopwords and prepositions
MainTermWords == { w_python, w_blogs, w_code, w_web, w_ai, w_the, w_about }

RECURSIVE MainTermWordLists(_)
\* the lists of n words
MainTermWordLists(n) ==
    IF n = 0 THEN { <<>> }
    ELSE { Append(ws, w) : ws \in MainTermWordLists(n - 1), w \in MainTermWords }

\* the queries: at most MaxWords words, separated by one space
MainTermQueries ==
    { JoinSpace(ws) : ws \in UNION { MainTermWordLists(n) : n \in 0..MaxWords } }

\* the stopword sets handed to identify_main_terms: that of the stopwords file,
\* the empty one, and one that holds a content word
StopwordSets == { stopwords, {}, {w_the, w_web} }

\* the module text_processing after its import
InitMainTerms ==
    /\ document_map = <<>>
    /\ inverted_index = <<>>
    /\ document_lengths = <<>>
    /\ average_doc_length = 0
    /\ use_hybrid_search = FALSE
    /\ bert_embeddings = NewBertEmbeddings
    /\ phase = "terms_ready"
    /\ call = NoCall
    /\ results = <<>>
    /\ trace = NoTrace
    /\ index_loaded = FALSE
    /\ pc = <<>>
    /\ loads = <<>>
    /\ snapshot = None
    /\ load_args = None
    /\ NLTK_AVAILABLE \in BOOLEAN
    /\ NoCrawler

\* identify_main_terms(query, stopwords): results is the list it returns
IdentifyMainTerms(query, stopword_set) ==
    /\ phase = "terms_ready"
    /\ results' = identify_main_terms(query, stopword_set, NLTK_AVAILABLE)
    /\ call' = [op |-> "identify_main_terms", query |-> query, top_k |-> 0,
                env |-> [stopwords |-> stopword_set]]
    /\ phase' = "terms_returned"
    /\ UNCHANGED <<document_map, inverted_index, document_lengths, average_doc_length,
                   use_hybrid_search, bert_embeddings, trace, index_loaded, pc, loads,
                   snapshot, load_args, NLTK_AVAILABLE, crawler_vars>>

\* the caller takes the main terms
MainTermsNext ==
    /\ phase = "terms_returned"
    /\ phase' = "terms_ready"
    /\ call' = NoCall
    /\ results' = <<>>
    /\ UNCHANGED <<document_map, inverted_index, document_lengths, average_doc_length,
                   use_hybrid_search, bert_embeddings, trace, index_loaded, pc, loads,
                   snapshot, load_args, NLTK_AVAILABLE, crawler_vars>>

NextMainTerms ==
    \/ \E query \in MainTermQueries, stopword_set \in StopwordSets :
          IdentifyMainTerms(query, stopword_set)
    \/ MainTermsNext

SpecMainTerms == InitMainTerms /\ [][NextMainTerms]_vars

\* the stopwords and ignored prepositions of the call
IgnoredOfCall == call.env.stopwords \cup additional_ignore_words

\* the tokens of the query of the call, and those of them that are not ignored
QueryTokensOfCall == tokenize(Strip(Lower(call.query)), NLTK_AVAILABLE)
NonIgnoredOfCall == SelectSeq(QueryTokensOfCall, LAMBDA t : t \notin IgnoredOfCall)

\* C21: for every query and stopword set, identify_main_terms returns no term
\* that is a stopword or one of the ignored common prepositions.
C21_MainTermsExcludeIgnored ==
    phase = "terms_returned"
        => \A i \in 1..Len(results) : results[i] \notin IgnoredOfCall

\* the tokens of a list that have at least n characters
AtLeast(tokens, n) == SelectSeq(tokens, LAMBDA t : Len(t) >= n)

\* the selection of the length rule: the tokens of at least 5 characters, if there
\* are none those of at least 4, if there are still none all of them
LengthSelection(non_ignored) ==
    IF AtLeast(non_ignored, 5) # <<>> THEN AtLeast(non_ignored, 5)
    ELSE IF AtLeast(non_ignored, 4) # <<>> THEN AtLeast(non_ignored, 4)
    ELSE non_ignored

\* the length selection, followed by the first and by the last token when the
\* terms before them do not hold them
SelectionWithEnds(non_ignored) ==
    LET selected   == LengthSelection(non_ignored)
        first      == non_ignored[1]
        last       == non_ignored[Len(non_ignored)]
        with_first == IF InSeq(first, selected) THEN selected ELSE Append(selected, first)
    IN  IF non_ignored = <<>> THEN <<>>
        ELSE IF InSeq(last, with_first) THEN with_first ELSE Append(with_first, last)

\* the selection rule on the queries that hold a token which is not ignored
SelectionOfNonIgnored ==
    phase = "terms_returned" /\ NonIgnoredOfCall # <<>>
        => results = SelectionWithEnds(NonIgnoredOfCall)

\* C22: identify_main_terms returns, of the query tokens that are not ignored,
\* those of length >= 5, if there are none those of length >= 4, if there are
\* still none all of them, followed by the first and the last non-ignored token
\* when they are not yet selected; both are in the result.
C22_MainTermsFollowLengthRule ==
    phase = "terms_returned" /\ call.query # <<>>
        => /\ results = SelectionWithEnds(NonIgnoredOfCall)
           /\ NonIgnoredOfCall # <<>>
                 => /\ InSeq(NonIgnoredOfCall[1], results)
                    /\ InSeq(NonIgnoredOfCall[Len(NonIgnoredOfCall)], results)

(***************************************************************************)
(* Specification SpecRequests: app.py serves search requests one after the *)
(* other; each request with a query calls the lazy load_index() first.     *)
(***************************************************************************)
MaxRequests == 3

\* WEB_CONFIG["results_per_page"]
results_per_page == 15

\* the queries of the requests
RequestQueries == { <<>>, <<SP, SP>>, w_python, Text2(w_about, w_code) }

\* the module app after its import: the indexer is constructed and not loaded;
\* load_args holds SEARCH_MODE and the vector index files of the deployment
InitRequests ==
    /\ NewIndexer
    /\ phase = "idle"
    /\ call = NoCall
    /\ results = <<>>
    /\ trace = NoTrace
    /\ index_loaded = FALSE
    /\ pc = <<>>
    /\ loads = <<>>
    /\ snapshot = None
    /\ load_args \in LoadOptions
    /\ NLTK_AVAILABLE = TRUE
    /\ NoCrawler

\* the environments of the search of a request
RequestEnvironments ==
    IF load_args.use_hybrid /\ load_args.import = "ok" /\ load_args.files = "ok"
    THEN [nltk : {NLTK_AVAILABLE}, files : {load_args.files}, model : {"ok", "raise"},
          embedding : {0}, order : {"asc"}]
    ELSE [nltk : {NLTK_AVAILABLE}, files : {load_args.files}, model : {"ok"},
          embedding : {0}, order : {"asc"}]

\* position of a file in the order load_optimized_index reads the files; broken
\* names the first file that cannot be read, "none" when all can
FileRank(file) ==
    IF file = "none" THEN Len(IndexFiles) + 1
    ELSE CHOOSE i \in 1..Len(IndexFiles) : IndexFiles[i] = file

\* An indexer that assigns its fields only when every file was read.
LoadedIndexer_all_or_nothing(self, broken, opt) ==
    IF broken # "none" THEN self
    ELSE [document_map       |-> OptimizedIndex.document_map,
          inverted_index     |-> OptimizedIndex.inverted_index,
          document_lengths   |-> OptimizedIndex.document_lengths,
          average_doc_length |-> OptimizedIndex.average_doc_length,
          use_hybrid_search  |-> LoadHybrid(self.bert_embeddings, opt.use_hybrid, opt.import,
                                            opt.files).use_hybrid_search,
          bert_embeddings    |-> LoadHybrid(self.bert_embeddings, opt.use_hybrid, opt.import,
                                            opt.files).bert_embeddings]

\* the indexer after load_optimized_index(use_hybrid_search): each file that is
\* read is assigned to its field before the next file is opened, and the first
\* file that cannot be read raises
LoadedIndexer(self, broken, opt) ==
    [document_map       |-> IF FileRank(broken) > 1 THEN OptimizedIndex.document_map
                            ELSE self.document_map,
     inverted_index     |-> IF FileRank(broken) > 2 THEN OptimizedIndex.inverted_index
                            ELSE self.inverted_index,
     document_lengths   |-> IF FileRank(broken) > 3 THEN OptimizedIndex.document_lengths
                            ELSE self.document_lengths,
     average_doc_length |-> IF FileRank(broken) > 4 THEN OptimizedIndex.average_doc_length
                            ELSE self.average_doc_length,
     use_hybrid_search  |-> IF broken = "none"
                            THEN LoadHybrid(self.bert_embeddings, opt.use_hybrid, opt.import,
                                            opt.files).use_hybrid_search
                            ELSE self.use_hybrid_search,
     bert_embeddings    |-> IF broken = "none"
                            THEN LoadHybrid(self.bert_embeddings, opt.use_hybrid, opt.import,
                                            opt.files).bert_embeddings
                            ELSE self.bert_embeddings]

\* A load_index() that starts a load whatever the flag says.
StartsLoad_always(flag) == TRUE

\* load_index(), lines 85-86: a load is started when the flag is not set
StartsLoad(flag) == ~flag

\* A handler that searches whatever load_index() returned.
SearchAllowed_always(load_ok) == TRUE

\* search and api_search, `if not load_index(): return <error>`: the handler goes
\* on to indexer.search when load_index() returned True
SearchAllowed(load_ok) == load_ok

\* the results of the route: those of excluded domains are dropped; when
\* indexer.search raises the route logs the error and serves what it has
RouteResults(outcome) ==
    IF outcome.raised THEN <<>>
    ELSE SelectSeq(outcome.results, LAMBDA result : ~IsExcluded(result))

\* the state a request leaves: the fields of the indexer, the flag, what was
\* served, and the record of the load attempt
Responded(op, query, limit, env, self, flag, load, status, body, served, searched) ==
    /\ document_map' = self.document_map
    /\ inverted_index' = self.inverted_index
    /\ document_lengths' = self.document_lengths
    /\ average_doc_length' = self.average_doc_length
    /\ use_hybrid_search' = self.use_hybrid_search
    /\ bert_embeddings' = self.bert_embeddings
    /\ index_loaded' = flag
    /\ loads' = Append(loads, load)
    /\ snapshot' = [index |-> IndexOf(Self), index_loaded |-> index_loaded]
    /\ call' = [op |-> op, query |-> query, top_k |-> limit, env |-> env]
    /\ results' = served
    /\ trace' = [status |-> status, body |-> body, searched |-> searched]
    /\ phase' = "responded"
    /\ UNCHANGED <<pc, load_args, NLTK_AVAILABLE, crawler_vars>>

\* the handler after load_index() returned True: indexer.search and the response;
\* load_ok is index_loaded as load_index() left it
Serve(op, query, limit, env, self, load_ok, load) ==
    LET top_k   == IF op = "page" THEN results_per_page * 3 ELSE limit * 2
        outcome == search(self, query, top_k, env)
        after   == [self EXCEPT !.bert_embeddings = outcome.be,
                                !.inverted_index =
                                    InvertedIndexAfter(self, query,
                                        FilterTokens(tokenize(expand_query(query, env.nltk), env.nltk)),
                                        identify_main_terms(query, stopwords, env.nltk))]
        served  == IF op = "page" THEN Slice(RouteResults(outcome), 0, results_per_page)
                   ELSE Prefix(RouteResults(outcome), limit)
    IN  Responded(op, query, limit, env, after, load_ok, load, 200, "results", served, TRUE)

\* One request, GET /search?q=query (op "page", first page) or
\* GET /api/search?q=query&limit=limit (op "api"); broken is the state of the
\* index files when the request arrives.
Request(op, query, limit, env, broken) ==
    /\ phase = "idle"
    /\ Len(loads) < MaxRequests
    /\ IF query = <<>>
       THEN Responded(op, query, limit, env, Self, index_loaded, "none", 200,
                      IF op = "page" THEN "index" ELSE "empty", <<>>, FALSE)
       ELSE IF ~StartsLoad(index_loaded)
       THEN /\ SearchAllowed(TRUE)
            /\ Serve(op, query, limit, env, Self, index_loaded, "none")
       ELSE IF SearchAllowed(broken = "none")
       THEN Serve(op, query, limit, env, LoadedIndexer(Self, broken, load_args),
                  broken = "none", IF broken = "none" THEN "loaded" ELSE "failed")
       ELSE Responded(op, query, limit, env, LoadedIndexer(Self, broken, load_args), FALSE,
                      "failed", IF op = "page" THEN 200 ELSE 503, "error", <<>>, FALSE)

\* the response is sent; the server waits for the next request
NextRequest ==
    /\ phase = "responded"
    /\ phase' = "idle"
    /\ call' = NoCall
    /\ results' = <<>>
    /\ trace' = NoTrace
    /\ snapshot' = None
    /\ UNCHANGED <<document_map, inverted_index, document_lengths, average_doc_length,
                   use_hybrid_search, bert_embeddings, index_loaded, pc, loads, load_args,
                   NLTK_AVAILABLE, crawler_vars>>

NextRequests ==
    \/ \E op \in {"page", "api"}, query \in RequestQueries, limit \in 1..MaxTopK,
          env \in RequestEnvironments, broken \in Range(IndexFiles) \cup {"none"} :
          Request(op, query, limit, env, broken)
    \/ NextRequest

SpecRequests == InitRequests /\ [][NextRequests]_vars

\* the record of the load attempt of the request that was just answered
LastLoad == loads[Len(loads)]

\* C23: a search request runs indexer.search only after a load has succeeded.
\* While no load has succeeded index_loaded is False and each request with a query
\* attempts the load; a request whose load attempt fails is answered with an error
\* (HTTP 503 for /api/search) and no results.  Once index_loaded is True it stays
\* True and no later request starts a load.
C23_SearchOnlyAfterLoad ==
    /\ index_loaded <=> InSeq("loaded", loads)
    /\ \A i, j \in 1..Len(loads) : i < j /\ loads[i] = "loaded" => loads[j] = "none"
    /\ phase = "responded"
          => /\ snapshot.index_loaded => index_loaded
             /\ trace.searched => snapshot.index_loaded \/ LastLoad = "loaded"
             /\ call.query # <<>> /\ ~snapshot.index_loaded => LastLoad \in {"loaded", "failed"}
             /\ LastLoad = "failed"
                   => /\ ~index_loaded
                      /\ ~trace.searched
                      /\ trace.body = "error"
                      /\ results = <<>>
                      /\ call.op = "api" => trace.status = 503

\* a request failed to load, the next one loaded and searched, and a third one
\* was served results without a load
C23_Witness ==
    /\ phase = "responded"
    /\ loads = <<"failed", "loaded", "none">>
    /\ trace.searched
    /\ results # <<>>

\* C29: a load that fails part-way leaves document_map, inverted_index,
\* document_lengths and average_doc_length as they were before the attempt.
C29_FailedLoadKeepsIndex ==
    phase = "responded" /\ LastLoad = "failed" => IndexOf(Self) = snapshot.index

(***************************************************************************)
(* Specification SpecCoverage: an optimised index is loaded and queried    *)
(* with queries that repeat words and that mix main and other terms.       *)
(***************************************************************************)
CoverageQueries ==
    { w_python,
      Text2(w_python, w_python),
      Text3(w_python, w_python, w_ai),
      Text2(w_about, w_code),
      Text2(w_about, w_python),
      Text2(w_ai, w_web),
      Text3(w_python, w_ai, w_blogs) }

NextCoverage ==
    \/ \E opt \in LoadOptions : LoadOptimized(opt)
    \/ \E query \in CoverageQueries, top_k \in 0..MaxTopK, env \in Environments :
          Search(query, top_k, env)
    \/ NextQuery

SpecCoverage == InitSearch /\ [][NextCoverage]_vars

\* the main terms, one for each place of the list, that have a posting of the document
MainTermsHeld(doc_id) ==
    {i \in 1..Len(MainTermsOfCall) :
        /\ MainTermsOfCall[i] \in Range(TokensOfCall) \cap DOMAIN inverted_index
        /\ \E p \in Range(inverted_index[MainTermsOfCall[i]]) :
              p[1] = doc_id /\ doc_id \in DOMAIN document_lengths}

\* the multiplier, in tenths, of a document that holds `held` of `total` main
\* terms: x3.0 for all, x2.0 from 75%, x1.5 from 50%, x0.7 below 50% and above 0
CoverageByFraction(held, total) ==
    IF total = 0 \/ held = 0 THEN 10
    ELSE IF held = total THEN 30
    ELSE IF 4 * held >= 3 * total THEN 20
    ELSE IF 2 * held >= total THEN 15
    ELSE 7

\* the score of the document before the coverage multiplier: its BM25 sum with
\* the boosts of its fields
ScoreBeforeCoverage(doc_id) ==
    LET acc == ScoreTerms(Self, TokensOfCall, tokenize(call.query, call.env.nltk),
                          MainTermsOfCall, [scores |-> <<>>, presence |-> {}])
    IN  FieldBoosts(DictGet(acc.scores, doc_id, 0),
                    Lower(GetText(document_map[doc_id], "title")),
                    Lower(GetText(document_map[doc_id], "description")),
                    Lower(GetText(document_map[doc_id], "content_snippet")),
                    tokenize(call.query, call.env.nltk), Strip(Lower(call.query)),
                    MainTermsOfCall)

\* C24: for a query with main terms, each scored document of document_map gets
\* exactly one coverage multiplier, set by the fraction f of the main terms it
\* holds: x3.0 when f = 1, x2.0 when 0.75 <= f < 1, x1.5 when 0.5 <= f < 0.75 and
\* x0.7 only when 0 < f < 0.5, also when the query repeats a word.
C24_CoverageMultiplierByFraction ==
    phase = "returned" /\ MainTermsOfCall # <<>>
        => \A i \in 1..Len(trace.bm25_scores) :
              trace.bm25_scores[i][1] \in DOMAIN document_map
                 => trace.bm25_scores[i][2]
                       = (ScoreBeforeCoverage(trace.bm25_scores[i][1])
                          * CoverageByFraction(Cardinality(MainTermsHeld(trace.bm25_scores[i][1])),
                                               Len(MainTermsOfCall))) \div 10

\* the same for the queries whose main terms are distinct and whose scored
\* documents each hold a main term
CoverageOfDistinctMainTerms ==
    phase = "returned" /\ MainTermsOfCall # <<>> /\ NoDuplicate(MainTermsOfCall)
        => \A i \in 1..Len(trace.bm25_scores) :
              /\ trace.bm25_scores[i][1] \in DOMAIN document_map
              /\ MainTermsHeld(trace.bm25_scores[i][1]) # {}
              => trace.bm25_scores[i][2]
                    = (ScoreBeforeCoverage(trace.bm25_scores[i][1])
                       * CoverageByFraction(Cardinality(MainTermsHeld(trace.bm25_scores[i][1])),
                                            Len(MainTermsOfCall))) \div 10

(***************************************************************************)
(* Specification SpecProximity: _calculate_term_proximity is applied to    *)
(* texts of a few words and to lists of two or three terms.                *)
(***************************************************************************)
MaxTextWords == 4

\* the words of the texts: three terms and a longer word that is no term
ProximityWords == { w_ai, w_web, w_code, <<"z","z","z","z","z","z">> }

RECURSIVE ProximityWordLists(_)
\* the lists of n words
ProximityWordLists(n) ==
    IF n = 0 THEN { <<>> }
    ELSE { Append(ws, w) : ws \in ProximityWordLists(n - 1), w \in ProximityWords }

\* the texts: at most MaxTextWords words, separated by one space
ProximityTexts ==
    { JoinSpace(ws) : ws \in UNION { ProximityWordLists(n) : n \in 0..MaxTextWords } }

\* the term lists
ProximityTerms == { <<w_ai, w_web>>, <<w_web, w_ai>>, <<w_ai, w_web, w_code>>, <<w_code>> }

InitProximity ==
    /\ document_map = <<>>
    /\ inverted_index = <<>>
    /\ document_lengths = <<>>
    /\ average_doc_length = 0
    /\ use_hybrid_search = FALSE
    /\ bert_embeddings = None
    /\ phase = "proximity_ready"
    /\ call = NoCall
    /\ results = <<>>
    /\ trace = NoTrace
    /\ index_loaded = FALSE
    /\ pc = <<>>
    /\ loads = <<>>
    /\ snapshot = None
    /\ load_args = None
    /\ NLTK_AVAILABLE = TRUE
    /\ NoCrawler

\* self._calculate_term_proximity(text, terms): results holds the score returned
CalculateTermProximity(text, terms) ==
    /\ phase = "proximity_ready"
    /\ results' = <<_calculate_term_proximity(text, terms)>>
    /\ call' = [op |-> "_calculate_term_proximity", query |-> text, top_k |-> 0,
                env |-> [terms |-> terms]]
    /\ phase' = "proximity_returned"
    /\ UNCHANGED <<document_map, inverted_index, document_lengths, average_doc_length,
                   use_hybrid_search, bert_embeddings, trace, index_loaded, pc, loads,
                   snapshot, load_args, NLTK_AVAILABLE, crawler_vars>>

\* the caller takes the score
ProximityNext ==
    /\ phase = "proximity_returned"
    /\ phase' = "proximity_ready"
    /\ call' = NoCall
    /\ results' = <<>>
    /\ UNCHANGED <<document_map, inverted_index, document_lengths, average_doc_length,
                   use_hybrid_search, bert_embeddings, trace, index_loaded, pc, loads,
                   snapshot, load_args, NLTK_AVAILABLE, crawler_vars>>

NextProximity ==
    \/ \E text \in ProximityTexts, terms \in ProximityTerms : CalculateTermProximity(text, terms)
    \/ ProximityNext

SpecProximity == InitProximity /\ [][NextProximity]_vars

\* the choices of one occurrence of every term: the start position of each
OccurrenceChoices(text, terms) ==
    {f \in [1..Len(terms) -> 0..Len(text)] :
        \A i \in 1..Len(terms) : f[i] \in TermPositions(text, terms[i])}

\* the smallest stretch of the text, in characters from the first start to the
\* last start, that holds one occurrence of every term
SmallestWindow(text, terms) ==
    SetMin({SetMax({f[i] : i \in 1..Len(terms)}) - SetMin({f[i] : i \in 1..Len(terms)}) :
               f \in OccurrenceChoices(text, terms)})

\* 1 - min(minDistance, M)/M with M = min(100, len(text) // 2), in units of 1/SCALE
ProximityByWindow(text, terms) ==
    LET M == Min2(100, Len(text) \div 2)
    IN  SCALE - (Min2(SmallestWindow(text, terms), M) * SCALE) \div M

\* the score is within [0, 1]
ProximityInUnitInterval ==
    phase = "proximity_returned" => results[1] >= 0 /\ results[1] <= SCALE

\* C25: _calculate_term_proximity(text, terms) returns 0 when a term does not
\* occur in the text, and otherwise 1 - min(minDistance, M)/M with
\* M = min(100, len(text)/2) and minDistance the size of the smallest window of
\* the text that holds one occurrence of every term; the result is within [0, 1].
C25_ProximityBySmallestWindow ==
    phase = "proximity_returned"
        => /\ results[1] >= 0 /\ results[1] <= SCALE
           /\ results[1] = IF OccurrenceChoices(call.query, call.env.terms) = {} THEN 0
                           ELSE ProximityByWindow(call.query, call.env.terms)

\* the number of occurrences of the term among the filtered tokens of a field
Occurrences(document, field, term, nltk) ==
    LET tokens == FilterTokens(TokensOf(GetText(document, field), nltk))
    IN  Cardinality({i \in 1..Len(tokens) : tokens[i] = term})

\* title_boost, meta_boost and 1.0 for each occurrence in title, meta description
\* and content
FieldWeight(document, term, nltk) ==
    title_boost * Occurrences(document, "title", term, nltk)
    + meta_boost * Occurrences(document, "meta_description", term, nltk)
    + Occurrences(document, "content", term, nltk)

\* the postings of the term that name the document
PostingsOf(term, doc_id) ==
    SelectSeq(inverted_index[term], LAMBDA posting : posting[1] = doc_id)

RECURSIVE SumOfPostings(_, _)
\* the sum of the weights of the postings that name the document, over the terms
SumOfPostings(terms, doc_id) ==
    IF terms = {} THEN 0
    ELSE LET term == CHOOSE t \in terms : TRUE
         IN  SumWeights(PostingsOf(term, doc_id)) + SumOfPostings(terms \ {term}, doc_id)

\* the files the build of the call indexed
IndexedFilesOfCall == Range(IndexedFiles(call.op, call.listing))

\* every posting carries the weight of the fields of an indexed file of its
\* doc_id, and every term of an indexed file has such a posting
PostingWeightsFollowFields ==
    phase = "built"
        => /\ \A term \in DOMAIN inverted_index :
                 \A posting \in Range(inverted_index[term]) :
                    \E file \in IndexedFilesOfCall :
                       /\ DocIdOf(file.name) = posting[1]
                       /\ FieldWeight(file.body, term, NLTK_AVAILABLE) = posting[2]
                       /\ posting[2] > 0
           /\ \A file \in IndexedFilesOfCall :
                 \A term \in DOMAIN inverted_index :
                    FieldWeight(file.body, term, NLTK_AVAILABLE) > 0
                       => <<DocIdOf(file.name), FieldWeight(file.body, term, NLTK_AVAILABLE)>>
                             \in Range(inverted_index[term])

\* C26: for every indexed document and every term, the stored posting weight is
\* title_boost * (occurrences among the filtered title tokens) + meta_boost *
\* (occurrences among the filtered meta-description tokens) + 1.0 * (occurrences
\* among the filtered content tokens); a posting exists only for a term with an
\* occurrence, and document_lengths[doc_id] is the sum of the document's posting
\* weights.
C26_PostingWeightsAndLengths ==
    phase = "built"
        => /\ PostingWeightsFollowFields
           /\ \A doc_id \in DOMAIN document_lengths :
                 document_lengths[doc_id] = SumOfPostings(DOMAIN inverted_index, doc_id)

\* the same for the builds in which no two indexed files share a doc_id
LengthsOfDistinctDocIds ==
    /\ phase = "built"
    /\ \A f, g \in IndexedFilesOfCall : DocIdOf(f.name) = DocIdOf(g.name) => f = g
    => \A doc_id \in DOMAIN document_lengths :
          document_lengths[doc_id] = SumOfPostings(DOMAIN inverted_index, doc_id)

\* the orders in which os.listdir can name the files of the listing
Reorderings(listing) ==
    { [i \in 1..Len(listing) |-> listing[p[i]]] :
        p \in {q \in [1..Len(listing) -> 1..Len(listing)] :
                  \A i, j \in 1..Len(listing) : q[i] = q[j] => i = j} }

\* the index that the build op and the optimisation give for a listing
BuiltAndOptimised(op, listing) ==
    _optimize_index(IF IsClassifiedBuild(op) THEN build_index(EmptyIndex, listing, NLTK_AVAILABLE)
                    ELSE build_index_from_crawled(EmptyIndex, listing, NLTK_AVAILABLE))

\* the terms kept, the set of postings of each term, document_lengths and
\* average_doc_length of the index are those of the indexer
SameAggregates(ix) ==
    /\ DOMAIN ix.inverted_index = DOMAIN inverted_index
    /\ \A term \in DOMAIN inverted_index :
          Range(ix.inverted_index[term]) = Range(inverted_index[term])
    /\ ix.document_lengths = document_lengths
    /\ ix.average_doc_length = average_doc_length

\* C27: the result of a build followed by the optimisation does not depend on
\* the order in which the documents are processed: for every other order of the
\* same files the terms kept after pruning, the set of postings of each term,
\* document_lengths and average_doc_length are the same.
C27_BuildIsOrderIndependent ==
    phase = "built_optimised"
        => \A reordered \in Reorderings(load_args.listing) :
              SameAggregates(BuiltAndOptimised(load_args.op, reordered))

\* the same for the directories in which no two indexed files share a doc_id
OrderIndependentWithDistinctDocIds ==
    /\ phase = "built_optimised"
    /\ \A f, g \in Range(IndexedFiles(load_args.op, load_args.listing)) :
          DocIdOf(f.name) = DocIdOf(g.name) => f = g
    => \A reordered \in Reorderings(load_args.listing) :
          SameAggregates(BuiltAndOptimised(load_args.op, reordered))

\* what the nearest-neighbour search of the call reported: pairs <<position, distance>>
NeighboursOfCall == FaissSearch(VectorFiles.index.vectors, call.env.embedding, call.top_k)

\* the neighbours that were found: their position denotes a stored vector
FoundNeighbours == SelectSeq(NeighboursOfCall, LAMBDA pair : pair[1] >= 0)

\* C28: every pair BertEmbeddings.search returns is the doc_id stored at a
\* position the nearest-neighbour search returned, with its similarity; a
\* position that denotes no stored vector (the -1 filler when fewer than top_k
\* vectors exist) gives no result, and each doc_id appears at most once.
C28_ResultsAreFoundNeighbours ==
    /\ phase = "vector_returned"
    /\ call.op = "bert_search"
    /\ load_args.files = "ok"
    /\ ~trace.raised
    => /\ results = [i \in 1..Len(FoundNeighbours) |->
                        <<VectorFiles.doc_ids[FoundNeighbours[i][1] + 1],
                          Similarity(FoundNeighbours[i][2])>>]
       /\ \A i, j \in 1..Len(results) : results[i][1] = results[j][1] => i = j

\* the same for the searches that ask for no more neighbours than are stored
ResultsOfFullNeighbourLists ==
    /\ phase = "vector_returned"
    /\ call.op = "bert_search"
    /\ load_args.files = "ok"
    /\ ~trace.raised
    /\ call.top_k <= Len(VectorFiles.index.vectors)
    => /\ results = [i \in 1..Len(FoundNeighbours) |->
                        <<VectorFiles.doc_ids[FoundNeighbours[i][1] + 1],
                          Similarity(FoundNeighbours[i][2])>>]
       /\ \A i, j \in 1..Len(results) : results[i][1] = results[j][1] => i = j

(***************************************************************************)
(* The crawler (search_engine/crawler/crawler.py): Crawler.crawl().        *)
(* A URL is a record of its scheme and host (domain) and its path; trace   *)
(* holds the HTTP requests made and the queue items taken, in order.       *)
(***************************************************************************)
MaxPages == 2
MaxDepth == 2
save_every == 10

Url(domain, path) == [domain |-> domain, path |-> path]

p_root   == <<"/">>
p_post   == <<"/","p","o","s","t","/","1">>
p_me     == <<"/","m","e">>
p_robots == <<"/","r","o","b","o","t","s",".","t","x","t">>

a_root   == Url("a", p_root)
a_post   == Url("a", p_post)
a_me     == Url("a", p_me)
a_robots == Url("a", p_robots)
b_root   == Url("b", p_root)

\* config["seed_urls"]
SeedLists == { <<a_root>>, <<a_root, a_root>>, <<a_me, b_root>> }

\* the links _extract_links finds in a page, in page order
LinkLists == { <<>>, <<a_post, a_post>>, <<a_robots, a_root>>, <<a_me, b_root>> }

CrawlerConfigs ==
    [seed_urls : SeedLists, max_pages : {MaxPages}, max_depth : {MaxDepth},
     respect_robots_txt : BOOLEAN, skip_previously_crawled : BOOLEAN,
     article_path_patterns : {<<>>, << <<"/","p","o","s","t","/">> >>}]

\* config["data_dir"] when the crawler is constructed: the pages saved there and
\* visited_urls.json, which is missing, unreadable or the list an earlier run saved
VisitedFile(state, urls) == [state |-> state, urls |-> urls]

DataDirs ==
    [pages : {{}, {a_post}},
     visited_urls_json : {VisitedFile("missing", {}), VisitedFile("unreadable", {}),
                          VisitedFile("list", {}), VisitedFile("list", {a_me}),
                          VisitedFile("list", {a_root, a_post})}]

\* _load_visited_urls()
_load_visited_urls(dir) ==
    IF dir.visited_urls_json.state = "list"
    THEN dir.visited_urls_json.urls
    ELSE {}

\* _save_visited_urls()
_save_visited_urls(dir, visited) ==
    [dir EXCEPT !.visited_urls_json = VisitedFile("list", visited)]

\* the answers to the request for robots.txt: the request raises, or a status
\* and the Disallow paths of the groups that match the user agent
RobotsResponses ==
    { [kind |-> "raise", status |-> 0, disallow |-> {}],
      [kind |-> "response", status |-> 404, disallow |-> {p_root}],
      [kind |-> "response", status |-> 200, disallow |-> {}],
      [kind |-> "response", status |-> 200, disallow |-> {<<"/","p">>}] }

\* the answers to the request for a page: the request raises, the content is
\* not HTML, or HTML with links
PageResponses ==
    { [kind |-> "raise", links |-> <<>>], [kind |-> "other", links |-> <<>>] }
    \cup [kind : {"html"}, links : LinkLists]

RobotsUrl(domain) == Url(domain, p_robots)

\* _should_respect_robots(url): the verdict, the cache after the call and the
\* requests the call made
_should_respect_robots(cfg, cache, url, response) ==
    IF ~cfg.respect_robots_txt
    THEN [allowed |-> TRUE, robots_cache |-> cache, requests |-> <<>>]
    ELSE LET cached == url.domain \in DOMAIN cache
             disallowed_paths ==
                 IF response.kind = "response" /\ response.status = 200
                 THEN response.disallow
                 ELSE {}
             after == IF cached THEN cache ELSE cache @@ (url.domain :> disallowed_paths)
         IN  [allowed      |-> ~\E disallowed \in after[url.domain] :
                                    StartsWith(url.path, disallowed),
              robots_cache |-> after,
              requests     |-> IF cached
                               THEN <<>>
                               ELSE <<[url |-> RobotsUrl(url.domain), kind |-> "robots"]>>]

\* re.search(r'/\d{4}/', path); the two longer date patterns contain this one
HasYear(path) ==
    \E i \in 1..(Len(path) - 5) :
        /\ path[i] = "/"
        /\ \A k \in 1..4 : path[i + k] \in Digits
        /\ path[i + 5] = "/"

\* _is_article_url(url)
_is_article_url(cfg, url) ==
    \/ cfg.article_path_patterns = <<>>
    \/ \E n \in 1..Len(cfg.article_path_patterns) :
          Contains(Lower(url.path), Lower(cfg.article_path_patterns[n]))
    \/ HasYear(Lower(url.path))

\* _is_previously_crawled_page(url)
_is_previously_crawled_page(cfg, dir, url) ==
    cfg.skip_previously_crawled /\ url \in dir.pages

\* `url in self.visited_urls`
IsVisited_never(url, visited) == FALSE

IsVisited(url, visited) == url \in visited

\* Crawler(config): __init__ with the data directory as it finds it
InitCrawler ==
    /\ NewIndexer
    /\ phase = "constructed"
    /\ call = NoCall
    /\ results = <<>>
    /\ trace = [requests |-> <<>>, dequeued |-> <<>>]
    /\ index_loaded = FALSE
    /\ pc = <<>>
    /\ loads = <<>>
    /\ load_args = None
    /\ NLTK_AVAILABLE = TRUE
    /\ config \in CrawlerConfigs
    /\ data_dir \in DataDirs
    /\ visited_urls = _load_visited_urls(data_dir)
    /\ snapshot = [visited_urls |-> visited_urls]
    /\ url_queue = <<>>
    /\ robots_cache = <<>>
    /\ pages_crawled = 0

not_crawler_vars == <<indexer_vars, call, results, index_loaded, pc, loads, snapshot,
                      load_args, NLTK_AVAILABLE, config>>

\* crawl(), lines 225-229: the seed URLs are queued at depth 0
StartCrawl ==
    /\ phase = "constructed"
    /\ url_queue' = url_queue \o [i \in 1..Len(config.seed_urls) |->
                                     [url |-> config.seed_urls[i], depth |-> 0]]
    /\ pages_crawled' = 0
    /\ phase' = "crawling"
    /\ UNCHANGED <<not_crawler_vars, trace, visited_urls, robots_cache, data_dir>>

\* the condition of the while loop
Looping == phase = "crawling" /\ url_queue # <<>> /\ pages_crawled < config.max_pages

\* the item taken from the queue, and the requests made while it was handled
Logged(item, requests) ==
    trace' = [requests |-> trace.requests \o requests,
              dequeued |-> Append(trace.dequeued,
                                  [url |-> item.url, depth |-> item.depth,
                                   before |-> Len(trace.requests),
                                   after |-> Len(trace.requests) + Len(requests)])]

\* one pass of the loop for a URL that is in visited_urls
SkipVisited ==
    /\ Looping
    /\ IsVisited(Head(url_queue).url, visited_urls)
    /\ url_queue' = Tail(url_queue)
    /\ Logged(Head(url_queue), <<>>)
    /\ UNCHANGED <<not_crawler_vars, phase, visited_urls, robots_cache, pages_crawled,
                   data_dir>>

\* one pass of the loop for a URL whose page is in the data directory
SkipPreviouslyCrawled ==
    /\ Looping
    /\ ~IsVisited(Head(url_queue).url, visited_urls)
    /\ _is_previously_crawled_page(config, data_dir, Head(url_queue).url)
    /\ url_queue' = Tail(url_queue)
    /\ visited_urls' = visited_urls \cup {Head(url_queue).url}
    /\ Logged(Head(url_queue), <<>>)
    /\ UNCHANGED <<not_crawler_vars, phase, robots_cache, pages_crawled, data_dir>>

\* one pass of the loop for a URL that robots.txt disallows
SkipRobots(robots_response) ==
    /\ Looping
    /\ ~IsVisited(Head(url_queue).url, visited_urls)
    /\ ~_is_previously_crawled_page(config, data_dir, Head(url_queue).url)
    /\ LET robots == _should_respect_robots(config, robots_cache, Head(url_queue).url,
                                            robots_response)
       IN  /\ ~robots.allowed
           /\ robots_cache' = robots.robots_cache
           /\ Logged(Head(url_queue), robots.requests)
    /\ url_queue' = Tail(url_queue)
    /\ visited_urls' = visited_urls \cup {Head(url_queue).url}
    /\ UNCHANGED <<not_crawler_vars, phase, pages_crawled, data_dir>>

\* one pass of the loop for a URL that is requested
FetchPage(robots_response, response) ==
    /\ Looping
    /\ ~IsVisited(Head(url_queue).url, visited_urls)
    /\ ~_is_previously_crawled_page(config, data_dir, Head(url_queue).url)
    /\ LET item        == Head(url_queue)
           url         == item.url
           depth       == item.depth
           robots      == _should_respect_robots(config, robots_cache, url, robots_response)
           should_save == _is_article_url(config, url) \/ depth = 0
           crawled     == IF response.kind = "html" /\ should_save
                          THEN pages_crawled + 1
                          ELSE pages_crawled
           links       == IF response.kind = "html" /\ depth < config.max_depth
                          THEN SelectSeq(response.links,
                                         LAMBDA link : ~IsVisited(link, visited_urls))
                          ELSE <<>>
           visited     == visited_urls \cup {url}
           saved       == IF response.kind = "html" /\ should_save
                          THEN [data_dir EXCEPT !.pages = @ \cup {url}]
                          ELSE data_dir
       IN  /\ robots.allowed
           /\ robots_cache' = robots.robots_cache
           /\ Logged(item, robots.requests \o <<[url |-> url, kind |-> "page"]>>)
           /\ url_queue' = Tail(url_queue) \o
                           [i \in 1..Len(links) |-> [url |-> links[i], depth |-> depth + 1]]
           /\ pages_crawled' = crawled
           /\ visited_urls' = visited
           /\ data_dir' = IF response.kind = "html" /\ crawled % save_every = 0
                          THEN _save_visited_urls(saved, visited)
                          ELSE saved
    /\ UNCHANGED <<not_crawler_vars, phase>>

\* the loop ends: lines 342-343
FinishCrawl ==
    /\ phase = "crawling"
    /\ ~Looping
    /\ data_dir' = _save_visited_urls(data_dir, visited_urls)
    /\ phase' = "finished"
    /\ UNCHANGED <<not_crawler_vars, trace, visited_urls, url_queue, robots_cache,
                   pages_crawled>>

NextCrawler ==
    \/ StartCrawl
    \/ SkipVisited
    \/ SkipPreviouslyCrawled
    \/ \E robots_response \in RobotsResponses : SkipRobots(robots_response)
    \/ \E robots_response \in RobotsResponses, response \in PageResponses :
          FetchPage(robots_response, response)
    \/ FinishCrawl

SpecCrawler == InitCrawler /\ [][NextCrawler]_vars

\* the requests made up to a position of the log, of one kind
RequestedUrls(kind, upto) ==
    {trace.requests[i].url : i \in {n \in 1..upto : trace.requests[n].kind = kind}}

NoUrlTwice(requests) ==
    \A i, j \in 1..Len(requests) : requests[i].url = requests[j].url => i = j

DepthsNeverDecrease ==
    \A i, j \in 1..Len(trace.dequeued) :
        i <= j => trace.dequeued[i].depth <= trace.dequeued[j].depth

\* the URLs handled before the k-th item was taken: those an earlier run left
\* in visited_urls and those taken from the queue earlier in this run
HandledBefore(k) ==
    snapshot.visited_urls \cup {trace.dequeued[j].url : j \in 1..(k - 1)}

\* C30: during one run of crawl() no URL is requested over HTTP more than once;
\* a queue item whose URL was already fetched, skipped or failed, in this run
\* or an earlier one, is dropped without a request; items leave the queue in
\* FIFO order, so their depths never decrease.
C30_EachUrlFetchedOnce ==
    phase \in {"crawling", "finished"}
    => /\ NoUrlTwice(trace.requests)
       /\ \A k \in 1..Len(trace.dequeued) :
             LET item == trace.dequeued[k]
             IN  item.url \in HandledBefore(k)
                              \cup RequestedUrls("page", item.before)
                              \cup RequestedUrls("robots", item.before)
                 => item.after = item.before
       /\ DepthsNeverDecrease

\* C30, amended: no URL is requested as a page more than once and the
\* robots.txt of a domain is requested at most once; a queue item whose URL
\* was taken from the queue before in this run, or was left in visited_urls
\* by an earlier run, is dropped without any request; depths never decrease.
C30_EachPageFetchedOnce ==
    phase \in {"crawling", "finished"}
    => /\ NoUrlTwice(SelectSeq(trace.requests, LAMBDA r : r.kind = "page"))
       /\ NoUrlTwice(SelectSeq(trace.requests, LAMBDA r : r.kind = "robots"))
       /\ \A k \in 1..Len(trace.dequeued) :
             trace.dequeued[k].url \in HandledBefore(k)
             => trace.dequeued[k].after = trace.dequeued[k].before
       /\ DepthsNeverDecrease

\* a URL was taken from the queue twice and requested the first time only, and
\* a URL of an earlier run was taken as well
C30_Witness ==
    /\ phase = "finished"
    /\ \E i, j \in 1..Len(trace.dequeued) :
          /\ i < j
          /\ trace.dequeued[i].url = trace.dequeued[j].url
          /\ trace.dequeued[i].after > trace.dequeued[i].before
          /\ trace.dequeued[j].depth > trace.dequeued[i].depth
    /\ \E k \in 1..Len(trace.dequeued) : trace.dequeued[k].url \in snapshot.visited_urls

=============================================================================
